---------------------------- MODULE Spec2Model ----------------------------
(***************************************************************************)
(* Model of the filmbot catalog search engine (src/video_search.py).      *)
(*                                                                         *)
(* JSON values are tagged records [t |-> tag, v |-> value]:                *)
(*   "str"  : v is a sequence of one-character strings                     *)
(*   "int"  : v is an integer                                              *)
(*   "null" : Python None                                                  *)
(*   "list" : v is a sequence of JSON values                               *)
(*   "dict" : v is a function from key names to JSON values                *)
(* Python text is a sequence of tokens; a title is a sequence of single    *)
(* characters, so that lower() and the substring test are computed.        *)
(***************************************************************************)
EXTENDS Integers, Sequences, FiniteSets, TLC

(***************************************************************************)
(* Bounds of the model.                                                    *)
(***************************************************************************)
\* longest reference genre list
MaxGenres == 2
\* number of non-empty pages the upstream serves to one call before every
\* further page it serves ends the paging of a genre
MaxFull == 2
\* the same number where two calls run against one catalog
MaxPairFull == 1

(***************************************************************************)
(* JSON values and Python primitives.                                      *)
(***************************************************************************)
JStr(s)  == [t |-> "str", v |-> s]
JInt(n)  == [t |-> "int", v |-> n]
JNull    == [t |-> "null", v |-> 0]
JList(l) == [t |-> "list", v |-> l]
JDict(d) == [t |-> "dict", v |-> d]

\* the empty mapping {}
EmptyMap == [k \in {} |-> JNull]

\* Python truth value of a JSON value
Truthy(x) ==
    CASE x.t = "str"  -> Len(x.v) > 0
      [] x.t = "int"  -> x.v # 0
      [] x.t = "null" -> FALSE
      [] x.t = "list" -> Len(x.v) > 0
      [] x.t = "dict" -> DOMAIN x.v # {}

\* a: Python `a or b`
PyOr(a, b) == IF Truthy(a) THEN a ELSE b

\* str.lower() on one character
LowerChar(ch) ==
    CASE ch = "A" -> "a"
      [] ch = "B" -> "b"
      [] ch = "X" -> "x"
      [] ch = "M" -> "m"
      [] ch = "P" -> "p"
      [] ch = "K" -> "k"
      [] ch = "V" -> "v"
      [] OTHER    -> ch

\* str.lower()
Lower(s) == [i \in DOMAIN s |-> LowerChar(s[i])]

\* Python `a in b` for strings: a occurs in b as a contiguous substring
Contains(b, a) ==
    \E i \in 0..(Len(b) - Len(a)) : SubSeq(b, i + 1, i + Len(a)) = a

\* safe_get(obj, key, default)
safe_get(obj, key, default) ==
    IF obj.t = "dict"
    THEN IF key \in DOMAIN obj.v THEN obj.v[key] ELSE default
    ELSE default

\* dict.get(key, default)
DictGet(d, key, default) == IF key \in DOMAIN d.v THEN d.v[key] ELSE default

(***************************************************************************)
(* parse_source.  The quality keys of the source are Persian phrases; each *)
(* word of a key is one token here ("zirnevis" for the word for subtitle). *)
(***************************************************************************)
\* the text 'unknown'
Unknown == <<"u", "n", "k", "n", "o", "w", "n">>

\* quality_mapping
quality_mapping ==
    (<<"tizer">> :> <<"Trailer">>)
    @@ (<<"480", " ", "zirnevis">> :> <<"480p">>)
    @@ (<<"720", " ", "zirnevis">> :> <<"720p">>)
    @@ (<<"1080", " ", "zirnevis">> :> <<"1080p">>)
    @@ (<<"1080", " ", "FULLHD", " ", "zirnevis">> :> <<"1080p">>)

\* type_mapping
type_mapping ==
    (<<"m", "p", "4">> :> <<"s", "t", "r", "e", "a", "m">>)
    @@ (<<"m", "k", "v">> :> <<"d", "o", "w", "n", "l", "o", "a", "d">>)

\* faulty variant: the raw type is looked up without lower()
NormTypeCaseSensitive(source_type) ==
    IF source_type.v \in DOMAIN type_mapping
    THEN JStr(type_mapping[source_type.v])
    ELSE source_type

\* type_mapping.get(source_type.lower(), source_type)
NormType(source_type) ==
    IF Lower(source_type.v) \in DOMAIN type_mapping
    THEN JStr(type_mapping[Lower(source_type.v)])
    ELSE source_type

\* faulty variant: the table lacks the FULLHD key
NormQualityNoFullHD(quality) ==
    IF quality.t = "str" /\ quality.v \in DOMAIN quality_mapping
       /\ quality.v # <<"1080", " ", "FULLHD", " ", "zirnevis">>
    THEN JStr(quality_mapping[quality.v])
    ELSE quality

\* quality_mapping.get(quality, quality)
NormQuality(quality) ==
    IF quality.t = "str" /\ quality.v \in DOMAIN quality_mapping
    THEN JStr(quality_mapping[quality.v])
    ELSE quality

\* parse_source raises instead of returning: source_type.lower() on a type
\* that is not a string (AttributeError), a quality that cannot be a
\* dictionary key (TypeError)
ParseSourceRaises(source) ==
    /\ source.t = "dict"
    /\ \/ DictGet(source, "type", JStr(Unknown)).t # "str"
       \/ DictGet(source, "quality", JStr(Unknown)).t \in {"list", "dict"}

\* faulty variant: a bare string that is a key of the type table is taken
\* for a type
LegacySourceTyped(source) ==
    JDict([type    |-> IF Lower(source.v) \in DOMAIN type_mapping
                       THEN JStr(type_mapping[Lower(source.v)])
                       ELSE JStr(Unknown),
           quality |-> JStr(Unknown),
           url     |-> source])

\* faulty variant: a bare string is taken to be an mp4 link
LegacySourceMp4(source) ==
    JDict([type |-> JStr(<<"m", "p", "4">>), quality |-> JStr(Unknown), url |-> source])

\* the legacy branch: a bare string is the url
LegacySource(source) ==
    JDict([type |-> JStr(Unknown), quality |-> JStr(Unknown), url |-> source])

\* faulty variant: a missing quality or type defaults to the empty string
StructuredSourceEmptyDefaults(source) ==
    LET quality     == DictGet(source, "quality", JStr(<<>>))
        source_type == DictGet(source, "type", JStr(<<>>))
        url         == DictGet(source, "url", JStr(<<>>))
    IN  JDict([type    |-> NormType(source_type),
               quality |-> NormQuality(quality),
               url     |-> url])

\* the structured branch
StructuredSource(source) ==
    LET quality     == DictGet(source, "quality", JStr(Unknown))
        source_type == DictGet(source, "type", JStr(Unknown))
        url         == DictGet(source, "url", JStr(<<>>))
    IN  JDict([type    |-> NormType(source_type),
               quality |-> NormQuality(quality),
               url     |-> url])

\* parse_source(source); None is JNull
parse_source(source) ==
    CASE source.t = "str"  -> LegacySource(source)
      [] source.t = "dict" -> StructuredSource(source)
      [] OTHER             -> JNull


(***************************************************************************)
(* json.loads on the texts the model uses.  A text is a sequence of        *)
(* characters; the decoder handles the fragment                            *)
(*     value ::= digit | "[" "]" | "[" digit "]" | "{" "}"                 *)
(* and reports every other text the model uses as a JSONDecodeError.       *)
(***************************************************************************)
IsDigit(ch) == ch \in {"0", "1", "7"}

DigitVal(ch) == CASE ch = "0" -> 0 [] ch = "1" -> 1 [] ch = "7" -> 7

\* json.loads(text): [ok |-> FALSE] stands for json.JSONDecodeError
json_loads(text) ==
    CASE Len(text) = 1 /\ IsDigit(text[1]) ->
            [ok |-> TRUE, val |-> JInt(DigitVal(text[1]))]
      [] text = <<"[", "]">> ->
            [ok |-> TRUE, val |-> JList(<<>>)]
      [] Len(text) = 3 /\ text[1] = "[" /\ IsDigit(text[2]) /\ text[3] = "]" ->
            [ok |-> TRUE, val |-> JList(<<JInt(DigitVal(text[2]))>>)]
      [] text = <<"{", "}">> ->
            [ok |-> TRUE, val |-> JDict(EmptyMap)]
      [] OTHER ->
            [ok |-> FALSE, val |-> JNull]

\* the envelope keys process_response looks for after 'data', in its order
OtherKeys == <<"movies", "series", "items", "results">>

\* the for loop of process_response over OtherKeys, from position i
RECURSIVE FirstOtherKey(_, _)
FirstOtherKey(d, i) ==
    IF i > Len(OtherKeys) THEN JList(<<>>)
    ELSE IF OtherKeys[i] \in DOMAIN d THEN d[OtherKeys[i]]
    ELSE FirstOtherKey(d, i + 1)

\* faulty variant: 'data' is looked for after the other envelope keys
ProcessDecodedDataLast(x) ==
    CASE x.t = "list" -> x
      [] x.t = "dict" -> IF \E i \in DOMAIN OtherKeys : OtherKeys[i] \in DOMAIN x.v
                         THEN FirstOtherKey(x.v, 1)
                         ELSE IF "data" \in DOMAIN x.v THEN x.v["data"]
                         ELSE JList(<<>>)
      [] OTHER        -> JList(<<>>)

\* the part of process_response after the string has been decoded
ProcessDecoded(x) ==
    CASE x.t = "list" -> x
      [] x.t = "dict" -> IF "data" \in DOMAIN x.v THEN x.v["data"]
                         ELSE FirstOtherKey(x.v, 1)
      [] OTHER        -> JList(<<>>)

\* process_response(response_data)
process_response(response_data) ==
    IF response_data.t = "str"
    THEN LET r == json_loads(response_data.v)
         IN  IF r.ok THEN ProcessDecoded(r.val) ELSE JList(<<>>)
    ELSE ProcessDecoded(response_data)

(***************************************************************************)
(* extract_media_details.  A description is a text: a sequence of tokens,  *)
(* where each label of the source (a Persian phrase) is one token and      *)
(* "\n" is the line break.                                                 *)
(***************************************************************************)
\* the text an f-string puts in for a value
Fmt(x) ==
    CASE x.t = "str"  -> x.v
      [] x.t = "int"  -> <<ToString(x.v)>>
      [] x.t = "null" -> <<"None">>
      [] OTHER        -> <<"<repr>">>

\* sep.join(parts) for a sequence of texts
RECURSIVE Join(_, _)
Join(sep, parts) ==
    IF Len(parts) = 0 THEN <<>>
    ELSE IF Len(parts) = 1 THEN parts[1]
    ELSE parts[1] \o sep \o Join(sep, Tail(parts))

\* the texts of a list of strings
Texts(l) == [i \in DOMAIN l |-> l[i].v]

\* ', '.join(genres) raises TypeError when an entry is not a string
JoinRaises(genres) ==
    /\ genres.t = "list"
    /\ Truthy(genres)
    /\ \E i \in DOMAIN genres.v : genres.v[i].t # "str"

\* faulty variant: a field without value gets a line with a placeholder
LinePlaceholder(label, value) ==
    IF Truthy(value) THEN <<<<label>> \o Fmt(value)>> ELSE <<<<label, "-">>>>

\* one optional line of the description: [label + value] when value is truthy
Line(label, value) ==
    IF Truthy(value) THEN <<<<label>> \o Fmt(value)>> ELSE <<>>

\* the rating line: "<label><rating>/ 10"
RatingLine(rating) ==
    IF Truthy(rating) THEN <<<<"Rating: ">> \o Fmt(rating) \o <<"/ 10">>>> ELSE <<>>

\* the genre line: the item's own list, else the genre being paged
GenreLine(media_item, genre_title) ==
    LET genres == safe_get(media_item, "genres", JList(<<>>))
    IN  IF Truthy(genres) /\ genres.t = "list"
        THEN <<<<"Genre: ">> \o Join(<<",", " ">>, Texts(genres.v))>>
        ELSE IF Truthy(genre_title)
        THEN <<<<"Genre: ">> \o Fmt(genre_title)>>
        ELSE <<>>

\* the plot block: "\n<label>\n<plot>"
PlotLine(plot) ==
    IF Truthy(plot) THEN <<<<"\n", "Plot:", "\n">> \o Fmt(plot)>> ELSE <<>>

\* the list `details` built when the item carries no description
Details(media_item, genre_title) ==
    LET E == JStr(<<>>)
        year == safe_get(media_item, "year", E)
    IN  Line("OriginalName: ", safe_get(media_item, "originalName", E))
        \o RatingLine(PyOr(safe_get(media_item, "imdb", E),
                           safe_get(media_item, "rating", E)))
        \o Line("PersianName: ",
                PyOr(safe_get(media_item, "persianName", E),
                     safe_get(media_item, "persian_title", E)))
        \o GenreLine(media_item, genre_title)
        \o Line("Year: ", year)
        \o Line("Country: ", safe_get(media_item, "country", E))
        \o Line("Language: ", safe_get(media_item, "language", E))
        \o Line("AgeRating: ", safe_get(media_item, "ageRating", E))
        \o Line("Format: ", safe_get(media_item, "format", E))
        \o Line("Quality: ", safe_get(media_item, "quality", E))
        \o Line("Size: ", safe_get(media_item, "size", E))
        \o PlotLine(PyOr(safe_get(media_item, "plot", E),
                         safe_get(media_item, "summary", E)))

\* faulty variant: the synthesized lines win over the item's description
DescriptionSynthesizedFirst(media_item, genre_title) ==
    LET description == safe_get(media_item, "description", JStr(<<>>))
        details     == Details(media_item, genre_title)
    IN  IF Len(details) > 0 THEN JStr(Join(<<"\n">>, details))
        ELSE description

\* the description of the returned record
Description(media_item, genre_title) ==
    LET description == safe_get(media_item, "description", JStr(<<>>))
        details     == Details(media_item, genre_title)
    IN  IF Truthy(description) THEN description
        ELSE IF Len(details) > 0 THEN JStr(Join(<<"\n">>, details))
        ELSE description

\* extract_media_details raises instead of returning
ExtractRaises(media_item) ==
    /\ media_item.t = "dict"
    /\ ~Truthy(safe_get(media_item, "description", JStr(<<>>)))
    /\ JoinRaises(safe_get(media_item, "genres", JList(<<>>)))

\* faulty variant: the isinstance guard is missing, and safe_get supplies
\* the defaults for a value that is not a mapping
extract_media_detailsNoGuard(media_item, media_type, genre_title) ==
    JDict([title       |-> safe_get(media_item, "title", JStr(<<>>)),
           year        |-> safe_get(media_item, "year", JStr(<<>>)),
           genre       |-> genre_title,
           type        |-> JStr(<<media_type>>),
           sources     |-> safe_get(media_item, "sources", JList(<<>>)),
           poster      |-> safe_get(media_item, "poster", JStr(<<>>)),
           description |-> Description(media_item, genre_title)])

\* faulty variant: the item's own genre list and type, when it has them,
\* take the place of the caller's
extract_media_detailsOwn(media_item, media_type, genre_title) ==
    IF media_item.t # "dict" THEN JNull
    ELSE LET genres == safe_get(media_item, "genres", JList(<<>>))
         IN  JDict([title       |-> safe_get(media_item, "title", JStr(<<>>)),
                    year        |-> safe_get(media_item, "year", JStr(<<>>)),
                    genre       |-> IF Truthy(genres) /\ genres.t = "list"
                                    THEN JStr(Join(<<",", " ">>, Texts(genres.v)))
                                    ELSE genre_title,
                    type        |-> safe_get(media_item, "type", JStr(<<media_type>>)),
                    sources     |-> safe_get(media_item, "sources", JList(<<>>)),
                    poster      |-> safe_get(media_item, "poster", JStr(<<>>)),
                    description |-> Description(media_item, genre_title)])

\* faulty variant: the sources are normalized when the record is built
extract_media_detailsParsed(media_item, media_type, genre_title) ==
    IF media_item.t # "dict" THEN JNull
    ELSE LET sources == safe_get(media_item, "sources", JList(<<>>))
         IN  JDict([title       |-> safe_get(media_item, "title", JStr(<<>>)),
                    year        |-> safe_get(media_item, "year", JStr(<<>>)),
                    genre       |-> genre_title,
                    type        |-> JStr(<<media_type>>),
                    sources     |-> IF sources.t = "list"
                                    THEN JList([i \in DOMAIN sources.v |->
                                                   parse_source(sources.v[i])])
                                    ELSE sources,
                    poster      |-> safe_get(media_item, "poster", JStr(<<>>)),
                    description |-> Description(media_item, genre_title)])

\* extract_media_details(media_item, media_type, genre_title); None is JNull
extract_media_details(media_item, media_type, genre_title) ==
    IF media_item.t # "dict" THEN JNull
    ELSE JDict([title       |-> safe_get(media_item, "title", JStr(<<>>)),
                year        |-> safe_get(media_item, "year", JStr(<<>>)),
                genre       |-> genre_title,
                type        |-> JStr(<<media_type>>),
                sources     |-> safe_get(media_item, "sources", JList(<<>>)),
                poster      |-> safe_get(media_item, "poster", JStr(<<>>)),
                description |-> Description(media_item, genre_title)])

(***************************************************************************)
(* The item loop of search_movies / search_series over one page.           *)
(***************************************************************************)
\* the values a Python for loop draws from x: the entries of a list, the
\* characters of a string, the keys of a mapping
RECURSIVE KeySeq(_)
KeySeq(keys) ==
    IF keys = {} THEN <<>>
    ELSE LET k == CHOOSE k \in keys : TRUE
         IN  <<JStr(<<k>>)>> \o KeySeq(keys \ {k})

IterItems(x) ==
    CASE x.t = "list" -> x.v
      [] x.t = "str"  -> [i \in DOMAIN x.v |-> JStr(<<x.v[i]>>)]
      [] x.t = "dict" -> KeySeq(DOMAIN x.v)

\* `for movie in movies` raises TypeError for a value that is not iterable
Iterable(x) == x.t \in {"list", "str", "dict"}

\* title.lower() raises AttributeError unless title is a string
HasLower(title) == title.t = "str"

\* faulty variant: the title test compares without lower()
TitleMatchesCaseSensitive(query, title) ==
    Contains(title.v, query) \/ query = title.v

\* query.lower() in title.lower() or query.lower() == title.lower()
TitleMatches(query, title) ==
    \/ Contains(Lower(title.v), Lower(query))
    \/ Lower(query) = Lower(title.v)

\* faulty variant: the exact match compares without lower()
ExactMatchCaseSensitive(query, title) == query = title.v

\* query.lower() == title.lower(), the exact match
ExactMatch(query, title) == Lower(query) = Lower(title.v)

\* The loop `for movie in movies` from entry i on, with the results so far.
\* end: "page" the loop ran through, "exact" return results, "raise" an
\* exception left the loop.  examined: the entries the loop has looked at.
RECURSIVE ProcessItems(_, _, _, _, _, _)
ProcessItems(items, i, res, query, media_type, genre_title) ==
    IF i > Len(items) THEN [results |-> res, end |-> "page", examined |-> i - 1]
    ELSE LET movie == items[i]
             title == safe_get(movie, "title", JStr(<<>>))
         IN  IF movie.t # "dict"
             THEN ProcessItems(items, i + 1, res, query, media_type, genre_title)
             ELSE IF ~HasLower(title)
             THEN [results |-> res, end |-> "raise", examined |-> i]
             ELSE IF ~TitleMatches(query, title)
             THEN ProcessItems(items, i + 1, res, query, media_type, genre_title)
             ELSE IF ExtractRaises(movie)
             THEN [results |-> res, end |-> "raise", examined |-> i]
             ELSE LET details == extract_media_details(movie, media_type, genre_title)
                  IN  IF ~Truthy(details)
                      THEN ProcessItems(items, i + 1, res, query, media_type, genre_title)
                      ELSE IF ExactMatch(query, title)
                      THEN [results |-> Append(res, details), end |-> "exact",
                            examined |-> i]
                      ELSE ProcessItems(items, i + 1, Append(res, details), query,
                                        media_type, genre_title)

(***************************************************************************)
(* Inputs of the model: reference genres, queries, catalog items and the   *)
(* responses the remote catalog can give to a page request.                *)
(***************************************************************************)
Genre(id, title) == JDict([id |-> JInt(id), title |-> JStr(title)])

\* the genres a reference list is made of; id 0 is a genre the loop skips
GenrePool == <<Genre(0, <<"N", "o", "n", "e">>),
               Genre(1, <<"A", "c", "t">>),
               Genre(2, <<"D", "r", "a">>)>>

\* the reference lists: every list of distinct genres of at most MaxGenres
GenreLists ==
    LET idx == UNION {[1..n -> 1..Len(GenrePool)] : n \in 0..MaxGenres}
        inj == {f \in idx : \A i, j \in DOMAIN f : i # j => f[i] # f[j]}
    IN  {[i \in DOMAIN f |-> GenrePool[f[i]]] : f \in inj}

\* the queries; the empty one is what `/search --type movie` passes on
Queries == {<<"A", "b">>, <<"b">>, <<>>}

MediaTypes == {"Movie", "Series"}

\* genre_id arguments: None, a skipped genre, a listed genre, an unknown id
GenreIdArgs == {JNull, JInt(0), JInt(1), JInt(3)}

Chars(s) == JStr(s)

\* an item with a genre list and a type of its own
ItSub      == JDict([title |-> Chars(<<"x", "A", "B">>), year |-> JInt(2020),
                     sources |-> JList(<<Chars(<<"u">>)>>),
                     genres |-> JList(<<Chars(<<"W", "a", "r">>)>>),
                     type |-> Chars(<<"t", "v">>)])
ItExact    == JDict([title |-> Chars(<<"a", "B">>),
                     description |-> Chars(<<"d">>)])
\* a structured source and a bare one
SrcFullHD  == JDict([quality |-> JStr(<<"1080", " ", "FULLHD", " ", "zirnevis">>),
                     type |-> JStr(<<"M", "P", "4">>), url |-> JStr(<<"v">>)])
ItB        == JDict([title |-> Chars(<<"B">>), poster |-> Chars(<<"p">>),
                     sources |-> JList(<<Chars(<<"u">>), SrcFullHD>>)])
ItNo       == JDict([title |-> Chars(<<"x">>)])
ItInt      == JInt(5)
ItNoTitle  == JDict([year |-> Chars(<<"1", "9">>)])
ItBadTitle == JDict([title |-> JNull])

\* a response: the transport failed (net = "fail"), or it carries a status
\* and a body that response.json() decodes (valid) to json or rejects
Resp(net, status, valid, json) ==
    [net |-> net, status |-> status, valid |-> valid, json |-> json]

NetFail == Resp("fail", 0, FALSE, JNull)
Http500 == Resp("ok", 500, FALSE, JNull)
BadJson == Resp("ok", 200, FALSE, JNull)
Ok(json) == Resp("ok", 200, TRUE, json)

ResponsePool ==
    { NetFail, Http500, BadJson,
      Ok(JList(<<>>)),
      Ok(JDict([data |-> JInt(7)])),
      Ok(JList(<<ItSub, ItInt, ItNo, ItNoTitle>>)),
      Ok(JDict([results |-> JList(<<ItSub, ItExact, ItSub>>)])),
      Ok(JDict([series |-> JList(<<ItSub>>), movies |-> JList(<<ItB>>)])),
      Ok(JList(<<ItSub, ItBadTitle, ItSub>>)) }

\* the response carries a non-empty item list: paging may go on after it
IsFull(resp) ==
    /\ resp.net = "ok"
    /\ resp.status = 200
    /\ resp.valid
    /\ Truthy(process_response(resp.json))

(***************************************************************************)
(* State.                                                                  *)
(***************************************************************************)
Calls == {1, 2}

VARIABLES
    genres,    \* the reference genre list load_json_data returns
    served,    \* the remote catalog as revealed so far: <<type, genre id, page>> -> response
    inp,       \* inp[c]: the arguments of call c
    pc,        \* pc[c]: "off", "idle", "request", "sleep", "done"
    loc,       \* loc[c]: search_genres, position of the current genre, page
    results,   \* results[c]: the accumulator of call c
    log,       \* log[c]: the page requests and sleeps of call c, in order
    ret,       \* ret[c]: how call c ended
    arg,       \* argument of the pure function under check
    out,       \* its result
    cap,       \* the non-empty pages the catalog serves to one call at most
    user_data, \* context.user_data of the chat user: the saved keys and their values
    events     \* the updates the bot has handled, each with the searches it performed

vars == <<genres, served, inp, pc, loc, results, log, ret, arg, out, cap, user_data, events>>

\* Python == on the values compared here
PyEq(a, b) == a.t = b.t /\ a.v = b.v

\* faulty variant: the genre filter is not applied
SearchGenresAll(all, genre_id) == all

\* [g for g in genres if genre_id is None or g.get('id') == genre_id]
SearchGenres(all, genre_id) ==
    SelectSeq(all, LAMBDA g : genre_id.t = "null" \/ PyEq(DictGet(g, "id", JNull), genre_id))

\* `if genre_id:` inside the loop: the genre is paged
Paged(g) == Truthy(DictGet(g, "id", JNull))

\* position of the first genre from position i on that the loop pages
RECURSIVE NextPaged(_, _)
NextPaged(sg, i) ==
    IF i > Len(sg) THEN i
    ELSE IF Paged(sg[i]) THEN i
    ELSE NextPaged(sg, i + 1)

NoLoc == [sg |-> <<>>, gi |-> 0, page |-> 0]
NoRet == [status |-> "none", why |-> ""]
NoInp == [query |-> <<>>, genre_id |-> JNull, country_id |-> JNull, media_type |-> "Movie"]

\* which function is called with which country_id: search_movies without,
\* search_series with one
CallKinds == {<<"Movie", JNull>>, <<"Series", JInt(1)>>}

Inputs == {[query |-> q, genre_id |-> g, country_id |-> k[2], media_type |-> k[1]] :
              q \in Queries, g \in GenreIdArgs, k \in CallKinds}

\* a log entry
Event(ev, gi, gid, page, outc, examined) ==
    [ev |-> ev, gi |-> gi, gid |-> gid, page |-> page, out |-> outc, examined |-> examined]

(***************************************************************************)
(* search_movies / search_series.  The two functions have the same body    *)
(* but for the URL and the media type, which inp[c].media_type stands for. *)
(***************************************************************************)
\* the non-empty pages the catalog has served to call c so far
FullCount(c) == Cardinality({i \in DOMAIN log[c] : log[c][i].out \in {"page", "exact", "raise"}})

\* the responses requests.get can bring for the page with this key
Upstream(c, key) ==
    IF key \in DOMAIN served THEN {served[key]}
    ELSE IF FullCount(c) < cap THEN ResponsePool
    ELSE {r \in ResponsePool : ~IsFull(r)}

\* the call ends: return results, or the exception handler and return results
Finish(c, why) ==
    /\ pc' = [pc EXCEPT ![c] = "done"]
    /\ ret' = [ret EXCEPT ![c] = [status |-> "returned", why |-> why]]
    /\ loc' = loc

\* the for loop over search_genres goes on from position i
EnterGenre(c, sg, i) ==
    LET n == NextPaged(sg, i)
    IN  IF n > Len(sg)
        THEN /\ pc' = [pc EXCEPT ![c] = "done"]
             /\ ret' = [ret EXCEPT ![c] = [status |-> "returned", why |-> "end"]]
             /\ loc' = [loc EXCEPT ![c] = [sg |-> sg, gi |-> n, page |-> 0]]
        ELSE /\ pc' = [pc EXCEPT ![c] = "request"]
             /\ ret' = ret
             /\ loc' = [loc EXCEPT ![c] = [sg |-> sg, gi |-> n, page |-> 0]]

\* load_json_data fails: the handler prints, and `return results` raises
\* because results was never bound
LoadFails(c) ==
    /\ pc[c] = "idle"
    /\ pc' = [pc EXCEPT ![c] = "done"]
    /\ ret' = [ret EXCEPT ![c] = [status |-> "raised", why |-> "load"]]
    /\ UNCHANGED <<genres, served, inp, loc, results, log, arg, out, cap, user_data, events>>

\* faulty variant: a country_id, when given, is used as the genre filter
CandidatesByCountry(c) ==
    SearchGenres(genres, IF inp[c].country_id.t # "null" THEN inp[c].country_id
                         ELSE inp[c].genre_id)

\* search_genres of call c; country_id takes no part in it
Candidates(c) == SearchGenres(genres, inp[c].genre_id)

\* faulty variant: results is one list of the module, emptied by every call
StartSharedAccumulator(c) ==
    /\ pc[c] = "idle"
    /\ results' = [k \in Calls |-> <<>>]
    /\ EnterGenre(c, Candidates(c), 1)
    /\ UNCHANGED <<genres, served, inp, log, arg, out, cap, user_data, events>>

\* the call starts: reference data loaded, results = [], search_genres built,
\* the loop reaches its first request or ends
Start(c) ==
    /\ pc[c] = "idle"
    /\ results' = [results EXCEPT ![c] = <<>>]
    /\ EnterGenre(c, Candidates(c), 1)
    /\ UNCHANGED <<genres, served, inp, log, arg, out, cap, user_data, events>>

\* faulty variant: after a break the loop starts the same genre again
BreakRetry(c) == EnterGenre(c, loc[c].sg, loc[c].gi)

\* faulty variant: after a break the loop passes over one genre
BreakSkipsOne(c) == EnterGenre(c, loc[c].sg, loc[c].gi + 2)

\* `break` out of `while True`: the for loop goes on with the next genre
Break(c) == EnterGenre(c, loc[c].sg, loc[c].gi + 1)

\* faulty variant: a transport failure only ends the paging of the genre
OnNetFailBreak(c) == Break(c)

\* requests.get raised: `except Exception` prints, then `return results`
OnNetFail(c) == Finish(c, "exception")

\* faulty variant: a non-200 response ends the whole search
OnHttpErrorAbort(c) == Finish(c, "exception")

\* status_code != 200: print and break
OnHttpError(c) == Break(c)

\* response.json() raised json.JSONDecodeError: print and break
OnBadJson(c) == Break(c)

\* faulty variant: an empty page does not end the paging of the genre
EndOfDataNever(movies) == FALSE

\* `if not movies: break`
EndOfData(movies) == ~Truthy(movies)

\* faulty variant: the next page is requested without the sleep
OnPageDoneNoSleep(c) ==
    /\ pc' = [pc EXCEPT ![c] = "request"]
    /\ loc' = [loc EXCEPT ![c].page = @ + 1]
    /\ ret' = ret

\* page += 1, then on to time.sleep
OnPageDone(c) ==
    /\ pc' = [pc EXCEPT ![c] = "sleep"]
    /\ loc' = [loc EXCEPT ![c].page = @ + 1]
    /\ ret' = ret

\* what the body of `while True` does with the response of one request
Handle(c, resp) ==
    LET l      == loc[c]
        genre  == l.sg[l.gi]
        gid    == DictGet(genre, "id", JNull).v
        gtitle == DictGet(genre, "title", JStr(<<>>))
        movies == process_response(resp.json)
        Log(outc, n) == log' = [log EXCEPT ![c] =
                            Append(@, Event("req", l.gi, gid, l.page, outc, n))]
    IN  IF resp.net = "fail"
        THEN /\ Log("neterr", 0) /\ OnNetFail(c) /\ results' = results
        ELSE IF resp.status # 200
        THEN /\ Log("http", 0) /\ OnHttpError(c) /\ results' = results
        ELSE IF ~resp.valid
        THEN /\ Log("badjson", 0) /\ OnBadJson(c) /\ results' = results
        ELSE IF EndOfData(movies)
        THEN /\ Log("empty", 0) /\ Break(c) /\ results' = results
        ELSE IF ~Iterable(movies)
        THEN /\ Log("raise", 0) /\ Finish(c, "exception") /\ results' = results
        ELSE LET r == ProcessItems(IterItems(movies), 1, results[c], inp[c].query,
                                   inp[c].media_type, gtitle)
             IN  /\ results' = [results EXCEPT ![c] = r.results]
                 /\ Log(r.end, r.examined)
                 /\ CASE r.end = "exact" -> Finish(c, "exact")
                      [] r.end = "raise" -> Finish(c, "exception")
                      [] r.end = "page"  -> OnPageDone(c)

\* requests.get for the current genre and page, and the handling of its response
Fetch(c) ==
    /\ pc[c] = "request"
    /\ LET l   == loc[c]
           gid == DictGet(l.sg[l.gi], "id", JNull).v
           key == <<inp[c].media_type, gid, l.page>>
       IN  \E resp \in Upstream(c, key) :
              /\ served' = IF key \in DOMAIN served THEN served
                           ELSE served @@ (key :> resp)
              /\ Handle(c, resp)
    /\ UNCHANGED <<genres, inp, arg, out, cap, user_data, events>>

\* time.sleep(0.5) after a page, before the next request
Sleep(c) ==
    /\ pc[c] = "sleep"
    /\ pc' = [pc EXCEPT ![c] = "request"]
    /\ log' = [log EXCEPT ![c] = Append(@, Event("sleep", loc[c].gi,
                   DictGet(loc[c].sg[loc[c].gi], "id", JNull).v, loc[c].page, "", 0))]
    /\ UNCHANGED <<genres, served, inp, loc, results, ret, arg, out, cap, user_data, events>>

\* one search call, with any arguments, against any reference list
Init ==
    /\ genres \in GenreLists
    /\ served = <<>>
    /\ \E i \in Inputs : inp = [c \in Calls |-> IF c = 1 THEN i ELSE NoInp]
    /\ pc = [c \in Calls |-> IF c = 1 THEN "idle" ELSE "off"]
    /\ loc = [c \in Calls |-> NoLoc]
    /\ results = [c \in Calls |-> <<>>]
    /\ log = [c \in Calls |-> <<>>]
    /\ ret = [c \in Calls |-> NoRet]
    /\ arg = JNull
    /\ out = JNull
    /\ cap = MaxFull
    /\ user_data = <<>>
    /\ events = <<>>

Next == LoadFails(1) \/ Start(1) \/ Fetch(1) \/ Sleep(1)

Spec == Init /\ [][Next]_vars

(***************************************************************************)
(* Properties.  The definitions below read the log of a call and the       *)
(* responses the catalog gave; they are not part of the program.           *)
(***************************************************************************)
\* the page requests of call c, in the order they were issued
Reqs(c) == SelectSeq(log[c], LAMBDA e : e.ev = "req")

\* the response the catalog gave to request e of call c
RespOf(c, e) == served[<<inp[c].media_type, e.gid, e.page>>]

\* the response is a 200 with a decodable body
Decoded(resp) == resp.net = "ok" /\ resp.status = 200 /\ resp.valid

\* the response is a page whose item list is empty
EmptyPage(resp) == Decoded(resp) /\ ~Truthy(process_response(resp.json))

\* the entries of the page a response carries
PageItems(resp) ==
    LET items == process_response(resp.json)
    IN  IF Iterable(items) THEN IterItems(items) ELSE <<>>

\* entry x is a mapping with a string title
Titled(x) == x.t = "dict" /\ safe_get(x, "title", JStr(<<>>)).t = "str"

\* entry x has a title equal to the query, letter case aside
IsExact(x, query) ==
    Titled(x) /\ Lower(safe_get(x, "title", JStr(<<>>)).v) = Lower(query)

\* entry x has a title that contains the query, letter case aside
IsMatch(x, query) ==
    Titled(x) /\ Contains(Lower(safe_get(x, "title", JStr(<<>>)).v), Lower(query))

\* entry x makes the item loop raise
Raising(x) == x.t = "dict" /\ (~Titled(x) \/ ExtractRaises(x))

\* a non-empty page with no exact match and nothing that raises
PlainPage(resp, query) ==
    /\ Decoded(resp)
    /\ LET payload == process_response(resp.json)
       IN  /\ Truthy(payload)
           /\ Iterable(payload)
           /\ LET items == IterItems(payload)
              IN  \A i \in DOMAIN items :
                     ~IsExact(items[i], query) /\ ~Raising(items[i])

\* the requests of call c for the genre at position gi of its candidates
GenreReqs(c, gi) == SelectSeq(Reqs(c), LAMBDA e : e.gi = gi)

\* C1: the pages requested for a genre are 0, 1, 2, ... consecutively; the
\* first page whose item list is empty ends the paging of that genre (no
\* higher page of it is requested, the search moves on to the next genre);
\* paging goes on after a non-empty page, so that a genre whose pages are
\* [non-empty, non-empty, empty] gets exactly 3 requests.
C1_Pagination ==
    \A c \in Calls :
        LET R == Reqs(c)
            Empty(i) == EmptyPage(RespOf(c, R[i]))
            Plain(i) == PlainPage(RespOf(c, R[i]), inp[c].query)
        IN  /\ \A i \in DOMAIN R :
                  R[i].page = IF i > 1 /\ R[i - 1].gi = R[i].gi
                              THEN R[i - 1].page + 1 ELSE 0
            /\ \A i \in DOMAIN R : i > 1 => R[i - 1].gi <= R[i].gi
            /\ \A i \in DOMAIN R :
                  Empty(i) =>
                     /\ \A j \in DOMAIN R : j > i => R[j].gi > R[i].gi
                     /\ i = Len(R) =>
                           \/ pc[c] = "request" /\ loc[c].page = 0
                                 /\ loc[c].gi > R[i].gi
                           \/ pc[c] = "done" /\ ret[c].status = "returned"
                                 /\ ret[c].why = "end"
            /\ \A i \in DOMAIN R :
                  IF i = Len(R)
                  THEN Plain(i) =>
                          /\ pc[c] \in {"sleep", "request"}
                          /\ loc[c].gi = R[i].gi
                          /\ loc[c].page = R[i].page + 1
                  ELSE R[i + 1].gi # R[i].gi => ~Plain(i)
            /\ \A i \in DOMAIN R :
                  (/\ R[i].page = 0
                   /\ i + 2 <= Len(R)
                   /\ R[i + 2].gi = R[i].gi
                   /\ Empty(i + 2)
                   /\ Plain(i)
                   /\ Plain(i + 1))
                  => Cardinality({j \in DOMAIN R : R[j].gi = R[i].gi}) = 3

\* a finished call paged one genre through [non-empty, non-empty, empty]
\* and went on to request a page of a later genre
C1_Witness ==
    /\ pc[1] = "done"
    /\ \E gi \in 1..Len(loc[1].sg) :
          LET G == GenreReqs(1, gi)
          IN  /\ Len(G) = 3
              /\ PlainPage(RespOf(1, G[1]), inp[1].query)
              /\ PlainPage(RespOf(1, G[2]), inp[1].query)
              /\ EmptyPage(RespOf(1, G[3]))
              /\ \E j \in DOMAIN Reqs(1) : Reqs(1)[j].gi > gi

\* position of the first entry of a page that is an exact match or raises;
\* Len + 1 when the page has none
RECURSIVE FirstStop(_, _, _)
FirstStop(items, i, query) ==
    IF i > Len(items) THEN i
    ELSE IF IsExact(items[i], query) \/ Raising(items[i]) THEN i
    ELSE FirstStop(items, i + 1, query)

\* the extractions of the entries 1..n of a page whose title contains the query
RECURSIVE MatchesUpTo(_, _, _, _, _)
MatchesUpTo(items, n, query, media_type, genre_title) ==
    IF n = 0 THEN <<>>
    ELSE LET before == MatchesUpTo(items, n - 1, query, media_type, genre_title)
         IN  IF IsMatch(items[n], query)
             THEN Append(before, extract_media_details(items[n], media_type, genre_title))
             ELSE before

\* title of the genre request e of call c was made for
GenreTitleOf(c, e) == DictGet(loc[c].sg[e.gi], "title", JStr(<<>>))

\* what the page of request e adds to the results of call c: the matches up
\* to the first exact match (included) or raising entry (excluded)
PageMatches(c, e) ==
    LET resp  == RespOf(c, e)
        items == PageItems(resp)
        stop  == FirstStop(items, 1, inp[c].query)
        n     == IF stop > Len(items) THEN Len(items)
                 ELSE IF Raising(items[stop]) THEN stop - 1 ELSE stop
    IN  IF Decoded(resp)
        THEN MatchesUpTo(items, n, inp[c].query, inp[c].media_type, GenreTitleOf(c, e))
        ELSE <<>>

\* the matches of the first n of the requests R of call c, in the order
\* encountered
RECURSIVE AccumulatedOver(_, _, _)
AccumulatedOver(c, R, n) ==
    IF n = 0 THEN <<>>
    ELSE AccumulatedOver(c, R, n - 1) \o PageMatches(c, R[n])

\* the matches of the first n requests of call c
Accumulated(c, n) == AccumulatedOver(c, Reqs(c), n)

\* request e of call c brought a page on which an exact match is reached
ExactReached(c, e) ==
    LET items == PageItems(RespOf(c, e))
        stop  == FirstStop(items, 1, inp[c].query)
    IN  /\ Decoded(RespOf(c, e))
        /\ stop <= Len(items)
        /\ IsExact(items[stop], inp[c].query)
        /\ ~Raising(items[stop])

\* C2: once an item whose title equals the query (letter case aside) is
\* processed the call returns: that request is the last event of the call,
\* no later item of the page was examined, and the returned sequence is
\* every match accumulated so far followed by the exact match, its last element.
C2_ExactMatchShortCircuit ==
    \A c \in Calls :
        LET R == Reqs(c)
        IN  \A i \in DOMAIN R :
               ExactReached(c, R[i]) =>
                  LET items == PageItems(RespOf(c, R[i]))
                      stop  == FirstStop(items, 1, inp[c].query)
                  IN  /\ i = Len(R)
                      /\ log[c][Len(log[c])] = R[i]
                      /\ R[i].examined = stop
                      /\ pc[c] = "done"
                      /\ ret[c].status = "returned"
                      /\ results[c] = Accumulated(c, i)
                      /\ results[c][Len(results[c])] =
                            extract_media_details(items[stop], inp[c].media_type,
                                                  GenreTitleOf(c, R[i]))

\* a call returned on an exact match in its second genre, with a match of
\* the first genre before it and an unexamined item after it on the page
C2_Witness ==
    LET R == Reqs(1)
    IN  /\ pc[1] = "done"
        /\ Len(R) >= 2
        /\ ExactReached(1, R[Len(R)])
        /\ R[1].gi < R[Len(R)].gi
        /\ Len(PageMatches(1, R[1])) >= 1
        /\ R[Len(R)].examined < Len(PageItems(RespOf(1, R[Len(R)])))
        /\ Len(results[1]) >= 3

\* the response is a non-200 response, or a 200 whose body cannot be parsed
ErrorResponse(resp) == resp.net = "ok" /\ (resp.status # 200 \/ ~resp.valid)

\* the genre at position k of the candidates of call c has an id the loop pages
HasId(c, k) == Truthy(DictGet(loc[c].sg[k], "id", JNull))

\* position of the first candidate after position gi that the loop pages;
\* Len + 1 when there is none
NextCandidate(c, gi) ==
    LET later == {k \in (gi + 1)..Len(loc[c].sg) : HasId(c, k)}
    IN  IF later = {} THEN Len(loc[c].sg) + 1
        ELSE CHOOSE k \in later : \A m \in later : k <= m

\* s is a prefix of t
IsPrefix(s, t) == Len(s) <= Len(t) /\ SubSeq(t, 1, Len(s)) = s

\* C3: a non-200 response, or a 200 response whose body cannot be parsed, on
\* a page of a genre ends the paging of that genre only: no further page of
\* it is requested, the results accumulated before it are kept, and the
\* search goes on at page 0 of the next genre; a call that runs to the end
\* of the list has requested page 0 of every later genre.
C3_ErrorIsolation ==
    \A c \in Calls :
        LET R == Reqs(c)
        IN  \A i \in DOMAIN R :
               ErrorResponse(RespOf(c, R[i])) =>
                  LET nxt == NextCandidate(c, R[i].gi)
                  IN  /\ \A j \in DOMAIN R : j > i => R[j].gi > R[i].gi
                      /\ IsPrefix(Accumulated(c, i - 1), results[c])
                      /\ IF i < Len(R)
                         THEN R[i + 1].gi = nxt /\ R[i + 1].page = 0
                         ELSE IF nxt <= Len(loc[c].sg)
                         THEN pc[c] = "request" /\ loc[c].gi = nxt /\ loc[c].page = 0
                         ELSE pc[c] = "done" /\ ret[c].status = "returned"
                                 /\ ret[c].why = "end"
                      /\ (pc[c] = "done" /\ ret[c].why = "end") =>
                            \A k \in (R[i].gi + 1)..Len(loc[c].sg) :
                               HasId(c, k) =>
                                  \E j \in DOMAIN R : R[j].gi = k /\ R[j].page = 0

\* a finished call met a non-200 response on page 1 of one genre and an
\* unparsable body in a later genre, and kept the match found before them
C3_Witness ==
    LET R == Reqs(1)
    IN  /\ pc[1] = "done"
        /\ Len(results[1]) >= 1
        /\ \E i, j \in DOMAIN R :
              /\ i < j
              /\ R[i].page = 1
              /\ RespOf(1, R[i]).status # 200
              /\ R[j].gi > R[i].gi
              /\ Decoded(RespOf(1, R[i - 1]))
              /\ ~RespOf(1, R[j]).valid /\ RespOf(1, R[j]).status = 200

\* C4: a network failure on a page request aborts the whole search: it is
\* the last request of the call, and the call returns exactly the results
\* accumulated before it; a call that has issued a request never raises.
C4_TransportFailureAborts ==
    \A c \in Calls :
        LET R == Reqs(c)
        IN  /\ \A i \in DOMAIN R :
                  RespOf(c, R[i]).net = "fail" =>
                     /\ i = Len(R)
                     /\ log[c][Len(log[c])] = R[i]
                     /\ pc[c] = "done"
                     /\ ret[c].status = "returned"
                     /\ results[c] = Accumulated(c, i - 1)
            /\ (pc[c] = "done" /\ Len(R) >= 1) => ret[c].status = "returned"
            /\ ret[c].status = "raised" => ret[c].why = "load" /\ log[c] = <<>>

\* a call failed on the network on page 1 of its first genre and returned
\* the match of page 0, leaving a later genre unrequested
C4_Witness ==
    LET R == Reqs(1)
    IN  /\ pc[1] = "done"
        /\ Len(R) = 2
        /\ RespOf(1, R[2]).net = "fail"
        /\ R[2].page = 1
        /\ Len(results[1]) >= 1
        /\ NextCandidate(1, R[2].gi) <= Len(loc[1].sg)

\* the id of a reference genre
IdOf(g) == DictGet(g, "id", JNull)

\* C5: with a non-null genre_id every request of the call is for the genre
\* with that id; when no reference genre has that id the call issues no
\* request and what it returns is empty.
C5_GenreScoping ==
    \A c \in Calls :
        inp[c].genre_id.t # "null" =>
           /\ \A i \in DOMAIN Reqs(c) : Reqs(c)[i].gid = inp[c].genre_id.v
           /\ (\A k \in DOMAIN genres : IdOf(genres[k]) # inp[c].genre_id) =>
                 /\ log[c] = <<>>
                 /\ pc[c] \in {"off", "idle", "done"}
                 /\ ret[c].status = "returned" => results[c] = <<>>

\* a finished call with genre_id 1 paged that genre, listed second, twice
C5_Witness ==
    /\ pc[1] = "done"
    /\ inp[1].genre_id = JInt(1)
    /\ Len(genres) = 2
    /\ IdOf(genres[1]) = JInt(2)
    /\ Len(Reqs(1)) >= 2

\* the ids of the genres whose page 0 call c requested, in request order
PageZeroIds(c) ==
    LET Z == SelectSeq(Reqs(c), LAMBDA e : e.page = 0)
    IN  [i \in DOMAIN Z |-> Z[i].gid]

\* the ids of a list of genres
Ids(gs) == [i \in DOMAIN gs |-> IdOf(gs[i]).v]

\* call c ran through its whole genre loop (no exact match, no exception)
RanToEnd(c) == pc[c] = "done" /\ ret[c].status = "returned" /\ ret[c].why = "end"

\* C6 as stated: with genre_id null the genres whose page 0 is requested
\* are exactly the reference list, in its order.
C6_AllGenresVisited ==
    \A c \in Calls :
        (RanToEnd(c) /\ inp[c].genre_id.t = "null") => PageZeroIds(c) = Ids(genres)

\* C6 (amended): with genre_id null the genres whose page 0 is requested are
\* exactly the reference genres that have a non-zero id, in listed order,
\* none left out and none revisited.
C6_GenresWithIdVisited ==
    \A c \in Calls :
        (RanToEnd(c) /\ inp[c].genre_id.t = "null") =>
           PageZeroIds(c) = Ids(SelectSeq(genres, LAMBDA g : IdOf(g).v # 0))

\* a call without genre_id ran to the end of a list of two genres with an id
C6_Witness ==
    /\ RanToEnd(1)
    /\ inp[1].genre_id.t = "null"
    /\ Len(genres) = 2
    /\ PageZeroIds(1) = Ids(genres)
    /\ Len(Reqs(1)) > 2

\* every match on the pages of the first n requests of call c, in the order
\* encountered
RECURSIVE FetchedMatchesOver(_, _, _)
FetchedMatchesOver(c, R, n) ==
    IF n = 0 THEN <<>>
    ELSE LET resp  == RespOf(c, R[n])
             items == PageItems(resp)
         IN  FetchedMatchesOver(c, R, n - 1)
             \o (IF Decoded(resp)
                 THEN MatchesUpTo(items, Len(items), inp[c].query,
                                  inp[c].media_type, GenreTitleOf(c, R[n]))
                 ELSE <<>>)

FetchedMatches(c, n) == FetchedMatchesOver(c, Reqs(c), n)

\* C7: a call that ends without exact match or exception returns exactly
\* the extraction of every item on the fetched pages whose title contains
\* the query (letter case aside), in the order encountered; no returned
\* record has a title that does not contain the query.
C7_TitleFilter ==
    \A c \in Calls :
        RanToEnd(c) =>
           /\ results[c] = FetchedMatches(c, Len(Reqs(c)))
           /\ \A i \in DOMAIN results[c] :
                 /\ results[c][i].v["title"].t = "str"
                 /\ Contains(Lower(results[c][i].v["title"].v), Lower(inp[c].query))

\* a call ran to the end with matches from two genres, having also fetched
\* an item that does not match
C7_Witness ==
    LET R == Reqs(1)
    IN  /\ RanToEnd(1)
        /\ Len(results[1]) >= 2
        /\ results[1][1].v["genre"] # results[1][Len(results[1])].v["genre"]
        /\ \E i \in DOMAIN R :
              \E k \in DOMAIN PageItems(RespOf(1, R[i])) :
                 /\ Titled(PageItems(RespOf(1, R[i]))[k])
                 /\ ~IsMatch(PageItems(RespOf(1, R[i]))[k], inp[1].query)

(***************************************************************************)
(* process_response on its own: one application to any payload.            *)
(***************************************************************************)
\* value of `out` before the function has been applied
NotYet == [t |-> "unset", v |-> 0]

\* a mapping with the given keys, each with a value that tells the key
Envelope(keys) ==
    JDict([k \in keys |-> IF k = "total" THEN JInt(0) ELSE JList(<<JStr(<<k>>)>>)])

\* the payloads: mappings with any set of keys, sequences, strings (JSON
\* texts and other texts), numbers and null
PayloadPool ==
    {Envelope(keys) : keys \in SUBSET {"data", "movies", "series", "items",
                                       "results", "total"}}
    \cup {JDict([data |-> JNull]), JDict([items |-> JInt(7), data |-> JStr(<<"7">>)])}
    \cup {JList(<<>>), JList(<<JInt(7)>>), JList(<<ItSub, ItInt>>)}
    \cup {JStr(<<"[", "]">>), JStr(<<"[", "7", "]">>), JStr(<<"{", "}">>),
          JStr(<<"7">>), JStr(<<"o", "o", "p", "s">>), JStr(<<>>)}
    \cup {JInt(0), JInt(7), JNull}

InitShape ==
    /\ arg \in PayloadPool
    /\ out = NotYet
    /\ genres = <<>>
    /\ served = <<>>
    /\ inp = [c \in Calls |-> NoInp]
    /\ pc = [c \in Calls |-> "off"]
    /\ loc = [c \in Calls |-> NoLoc]
    /\ results = [c \in Calls |-> <<>>]
    /\ log = [c \in Calls |-> <<>>]
    /\ ret = [c \in Calls |-> NoRet]
    /\ cap = 0
    /\ user_data = <<>>
    /\ events = <<>>

\* items = process_response(payload)
ApplyProcessResponse ==
    /\ out = NotYet
    /\ out' = process_response(arg)
    /\ UNCHANGED <<genres, served, inp, pc, loc, results, log, ret, arg, cap, user_data, events>>

NextShape == ApplyProcessResponse

SpecShape == InitShape /\ [][NextShape]_vars

\* the envelope keys in the order the claim gives them
EnvelopeKeys == <<"data", "movies", "series", "items", "results">>

\* value of the first envelope key a mapping has; no items when it has none
FirstPresent(d) ==
    LET present == {i \in DOMAIN EnvelopeKeys : EnvelopeKeys[i] \in DOMAIN d}
    IN  IF present = {} THEN JList(<<>>)
        ELSE d[EnvelopeKeys[CHOOSE i \in present : \A j \in present : i <= j]]

\* the rule for sequences and mappings; zero items for anything else
ShapeRule(x) ==
    CASE x.t = "list" -> x
      [] x.t = "dict" -> FirstPresent(x.v)
      [] OTHER        -> JList(<<>>)

\* C8 as stated: a bare sequence is the item list itself, a mapping gives
\* the value of its first envelope key, any other payload gives zero items.
C8_ShapeAsStated ==
    out # NotYet => out = ShapeRule(arg)

\* C8 (amended): as stated, except that a string payload is first decoded
\* as JSON and the rule is applied to the decoded value; a string that is
\* not valid JSON gives zero items.
C8_ShapeNormalization ==
    out # NotYet =>
       IF arg.t = "str"
       THEN IF json_loads(arg.v).ok THEN out = ShapeRule(json_loads(arg.v).val)
            ELSE out = JList(<<>>)
       ELSE out = ShapeRule(arg)

\* a mapping with movies and data (and more) gave the value of data
C8_Witness ==
    /\ arg.t = "dict"
    /\ {"data", "movies", "results"} \subseteq DOMAIN arg.v
    /\ out = arg.v["data"]
    /\ out # arg.v["movies"]

(***************************************************************************)
(* Two calls, one after the other, against the same catalog: the same      *)
(* query, genre_id and media type, different country_id.                   *)
(***************************************************************************)
\* the country_id of the first and of the second call
CountryPairs == {<<JNull, JInt(1)>>, <<JInt(2), JInt(1)>>}

\* the genre_id of both calls: None, or a listed genre
PairGenreIdArgs == {JNull, JInt(1)}

InitPair ==
    /\ genres \in GenreLists
    /\ served = <<>>
    /\ \E q \in Queries, g \in PairGenreIdArgs, m \in MediaTypes, cp \in CountryPairs :
          inp = [c \in Calls |-> [query |-> q, genre_id |-> g,
                                  country_id |-> cp[c], media_type |-> m]]
    /\ pc = [c \in Calls |-> "idle"]
    /\ loc = [c \in Calls |-> NoLoc]
    /\ results = [c \in Calls |-> <<>>]
    /\ log = [c \in Calls |-> <<>>]
    /\ ret = [c \in Calls |-> NoRet]
    /\ arg = JNull
    /\ out = JNull
    /\ cap = MaxPairFull
    /\ user_data = <<>>
    /\ events = <<>>

\* the second call is made when the first has ended
NextPair ==
    \/ LoadFails(1) \/ Start(1) \/ Fetch(1) \/ Sleep(1)
    \/ (pc[1] = "done" /\ LoadFails(2))
    \/ (pc[1] = "done" /\ Start(2))
    \/ (pc[1] = "done" /\ Fetch(2))
    \/ (pc[1] = "done" /\ Sleep(2))

SpecPair == InitPair /\ [][NextPair]_vars

\* what a call asked of the catalog: genre id and page of each request
Asked(c) == [i \in DOMAIN Reqs(c) |-> <<Reqs(c)[i].gid, Reqs(c)[i].page>>]

\* C9: two calls with the same query, genre_id and media type against the
\* same catalog, differing only in country_id, issue the same sequence of
\* page requests and return the same results.
C9_CountryIgnored ==
    (/\ pc[1] = "done" /\ pc[2] = "done"
     /\ ret[1].status = "returned" /\ ret[2].status = "returned"
     /\ inp[1].query = inp[2].query
     /\ inp[1].genre_id = inp[2].genre_id
     /\ inp[1].media_type = inp[2].media_type)
    => /\ Asked(1) = Asked(2)
       /\ results[1] = results[2]
       /\ ret[1] = ret[2]

\* both calls are over, one without and one with a country_id, after the
\* same three or more requests and with a match in their results
C9_Witness ==
    /\ pc[1] = "done" /\ pc[2] = "done"
    /\ inp[1].country_id = JNull /\ inp[2].country_id = JInt(1)
    /\ inp[1].genre_id = JNull
    /\ Len(Asked(1)) >= 3
    /\ Asked(1) = Asked(2)
    /\ Len(results[2]) >= 1

\* position in log[c] of the last request before position k; 0 when none
PrevReq(c, k) ==
    LET before == {j \in 1..(k - 1) : log[c][j].ev = "req"}
    IN  IF before = {} THEN 0
        ELSE CHOOSE j \in before : \A m \in before : m <= j

\* there is a sleep between positions j and k of log[c]
SleptBetween(c, j, k) == \E m \in (j + 1)..(k - 1) : log[c][m].ev = "sleep"

\* C10 as stated: between two consecutive requests of a call of which the
\* earlier was a successful fetch (a 200 response with a decodable body) the
\* delay is waited.
C10_SleepAfterEverySuccess ==
    \A c \in Calls :
        \A k \in DOMAIN log[c] :
           (/\ log[c][k].ev = "req"
            /\ PrevReq(c, k) # 0
            /\ Decoded(RespOf(c, log[c][PrevReq(c, k)])))
           => SleptBetween(c, PrevReq(c, k), k)

\* C10 (amended): between two consecutive requests of a call of which the
\* earlier brought a non-empty item list, the delay is waited (exactly once)
\* before the later request is issued.
C10_SleepAfterNonEmptyPage ==
    \A c \in Calls :
        \A k \in DOMAIN log[c] :
           (/\ log[c][k].ev = "req"
            /\ PrevReq(c, k) # 0
            /\ Decoded(RespOf(c, log[c][PrevReq(c, k)]))
            /\ Truthy(process_response(RespOf(c, log[c][PrevReq(c, k)]).json)))
           => /\ PrevReq(c, k) = k - 2
              /\ log[c][k - 1].ev = "sleep"

\* a call requested page 1 and page 2 of a genre, each after a non-empty page
C10_Witness ==
    \E k \in DOMAIN log[1] :
        /\ log[1][k].ev = "req"
        /\ log[1][k].page = 2
        /\ log[1][k - 1].ev = "sleep"
        /\ Truthy(process_response(RespOf(1, log[1][k - 2]).json))

(***************************************************************************)
(* Malformed items on a page.                                              *)
(***************************************************************************)
\* entry x is malformed: not a mapping, or a mapping whose title is absent
\* or is not a string
Malformed(x) ==
    \/ x.t # "dict"
    \/ "title" \notin DOMAIN x.v
    \/ x.v["title"].t # "str"

\* the entries of a page without the malformed ones
WellFormed(items) == SelectSeq(items, LAMBDA x : ~Malformed(x))

\* how the item loop ends on a page: at an exact match, at an entry that
\* raises, or at the end of the page
OutcomeOf(items, query) ==
    LET stop == FirstStop(items, 1, query)
    IN  IF stop > Len(items) THEN "page"
        ELSE IF Raising(items[stop]) THEN "raise"
        ELSE "exact"

\* what a page adds to the results: the matches up to its first exact match
\* (included) or raising entry (excluded)
MatchesOf(items, query, media_type, genre_title) ==
    LET stop == FirstStop(items, 1, query)
        n    == IF stop > Len(items) THEN Len(items)
                ELSE IF Raising(items[stop]) THEN stop - 1 ELSE stop
    IN  MatchesUpTo(items, n, query, media_type, genre_title)

\* the results of the first n of the requests R of call c, had the
\* malformed entries not been on their pages
RECURSIVE WellFormedResultsOver(_, _, _)
WellFormedResultsOver(c, R, n) ==
    IF n = 0 THEN <<>>
    ELSE WellFormedResultsOver(c, R, n - 1)
         \o (IF Decoded(RespOf(c, R[n]))
             THEN MatchesOf(WellFormed(PageItems(RespOf(c, R[n]))), inp[c].query,
                            inp[c].media_type, GenreTitleOf(c, R[n]))
             ELSE <<>>)

\* C11: a malformed item (not a mapping, or a mapping whose title is absent
\* or not a string) is skipped silently: the item loop ends on its page as
\* it would without the item (nothing is raised because of it) and the
\* results are those of the pages without their malformed items.
C11_MalformedItemSkipped ==
    \A c \in Calls :
        LET R == Reqs(c)
        IN  /\ \A i \in DOMAIN R :
                  LET resp == RespOf(c, R[i])
                  IN  (Decoded(resp) /\ Truthy(process_response(resp.json)))
                      => R[i].out = OutcomeOf(WellFormed(PageItems(resp)), inp[c].query)
            /\ results[c] = WellFormedResultsOver(c, R, Len(R))

(***************************************************************************)
(* The records a search returns.                                           *)
(***************************************************************************)
\* the entries of a page that the item loop turns into results: the entries
\* whose title contains the query, up to the first exact match (included)
\* or raising entry (excluded)
MatchedOn(items, query) ==
    LET stop == FirstStop(items, 1, query)
        n    == IF stop > Len(items) THEN Len(items)
                ELSE IF Raising(items[stop]) THEN stop - 1 ELSE stop
    IN  SelectSeq(SubSeq(items, 1, n), LAMBDA x : IsMatch(x, query))

\* for the first n of the requests R of call c: the matched entries, each
\* with the position of the genre it was found in
RECURSIVE FoundOver(_, _, _)
FoundOver(c, R, n) ==
    IF n = 0 THEN <<>>
    ELSE LET resp == RespOf(c, R[n])
             M    == IF Decoded(resp) THEN MatchedOn(PageItems(resp), inp[c].query)
                     ELSE <<>>
         IN  FoundOver(c, R, n - 1)
             \o [k \in DOMAIN M |-> [item |-> M[k], gi |-> R[n].gi]]

\* the matched entries of call c, in the order encountered
Found(c) == FoundOver(c, Reqs(c), Len(Reqs(c)))

\* the sources value an item carries: the empty sequence when it has none
RawSources(x) == IF "sources" \in DOMAIN x.v THEN x.v["sources"] ELSE JList(<<>>)

\* C12: every record of the results of a search carries, as its sources, the
\* sources value of the item it was made from, verbatim: the same entries in
\* the same order, bare strings and structured entries as they are, and the
\* empty sequence when the item has no sources.
C12_SourcesVerbatim ==
    \A c \in Calls :
        results[c] # <<>> =>
           LET F == Found(c)
           IN  /\ Len(results[c]) = Len(F)
               /\ \A k \in DOMAIN F :
                     results[c][k].v["sources"] = RawSources(F[k].item)

\* a finished call returned a record with a bare and a structured source,
\* both as the item has them, and a record of an item without sources
C12_Witness ==
    /\ pc[1] = "done"
    /\ ret[1].status = "returned"
    /\ \E k \in DOMAIN results[1] :
          /\ results[1][k].v["sources"] = JList(<<Chars(<<"u">>), SrcFullHD>>)
          /\ parse_source(SrcFullHD) # SrcFullHD
    /\ \E k \in DOMAIN results[1] :
          /\ results[1][k].v["sources"] = JList(<<>>)
          /\ "sources" \notin DOMAIN Found(1)[k].item.v

\* the media type of the function call c stands for: search_movies passes
\* 'Movie', search_series 'Series'
TypeOfCall(c) == JStr(<<inp[c].media_type>>)

\* C13: every record of the results has the type of the function that was
\* called (Movie for search_movies, Series for search_series) and, as its
\* genre, the title of the reference genre that was being paged when its
\* item was found, whatever genres, type or other fields the item carries.
C13_TypeAndGenreFromCaller ==
    \A c \in Calls :
        results[c] # <<>> =>
           LET F == Found(c)
           IN  /\ Len(results[c]) = Len(F)
               /\ \A k \in DOMAIN F :
                     /\ results[c][k].v["type"] = TypeOfCall(c)
                     /\ results[c][k].v["type"] \in {JStr(<<"Movie">>), JStr(<<"Series">>)}
                     /\ results[c][k].v["genre"] =
                           DictGet(loc[c].sg[F[k].gi], "title", JStr(<<>>))

\* a finished search_series call returned records found in two genres, the
\* first made from an item that has a genre list and a type of its own
C13_Witness ==
    /\ pc[1] = "done"
    /\ ret[1].status = "returned"
    /\ inp[1].media_type = "Series"
    /\ Len(results[1]) >= 2
    /\ LET F == Found(1)
       IN  /\ F[1].gi # F[Len(F)].gi
           /\ "genres" \in DOMAIN F[1].item.v
           /\ "type" \in DOMAIN F[1].item.v
           /\ results[1][1].v["genre"] # results[1][Len(F)].v["genre"]
           /\ results[1][1].v["genre"].v # Join(<<",", " ">>, Texts(F[1].item.v["genres"].v))

(***************************************************************************)
(* extract_media_details on its own: one application to any item, with     *)
(* any media type and genre title.                                         *)
(***************************************************************************)
\* value of `out` when the function raised instead of returning
Raised == [t |-> "raised", v |-> 0]

\* the value each metadata key has in the items built from key sets
FieldValue ==
    [originalName |-> JStr(<<"O", "n">>),
     imdb         |-> JStr(<<"8">>),
     genres       |-> JList(<<JStr(<<"W", "a", "r">>), JStr(<<"S", "p", "y">>)>>),
     year         |-> JStr(<<"2020">>),
     country      |-> JStr(<<"Iran">>),
     plot         |-> JStr(<<"P", "l">>),
     description  |-> JStr(<<"d", "\n", "e">>)]

\* the item that has exactly the keys of a set, each with its FieldValue
ItemOf(keys) == JDict([k \in keys |-> FieldValue[k]])

\* an item with every key the extractor reads
ItAll ==
    JDict([title |-> JStr(<<"T">>), year |-> JInt(1999), poster |-> JStr(<<"p">>),
           sources |-> JList(<<JStr(<<"u">>), SrcFullHD>>),
           originalName |-> JStr(<<"O">>), imdb |-> JInt(8), rating |-> JStr(<<"7">>),
           persianName |-> JStr(<<"F">>), persian_title |-> JStr(<<"G">>),
           genres |-> JList(<<JStr(<<"W">>)>>), country |-> JStr(<<"C">>),
           language |-> JStr(<<"L">>), ageRating |-> JStr(<<"R">>),
           format |-> JStr(<<"M">>), quality |-> JStr(<<"Q">>),
           size |-> JStr(<<"S">>), plot |-> JStr(<<"P">>), summary |-> JStr(<<"Z">>),
           type |-> JStr(<<"t", "v">>)])

\* the items: every set of the keys of FieldValue, the second key of each
\* pair the extractor falls back to, empty and ill-typed values, values
\* that are not mappings
ExtractItemPool ==
    {ItemOf(keys) : keys \in SUBSET DOMAIN FieldValue}
    \cup {ItAll,
          JDict(("description" :> JStr(<<"d">>)) @@ ItAll.v),
          JDict([rating |-> JStr(<<"7">>), persian_title |-> JStr(<<"G">>),
                 summary |-> JStr(<<"Z">>)]),
          JDict([imdb |-> JStr(<<>>), rating |-> JInt(7), plot |-> JNull,
                 summary |-> JStr(<<"Z">>), size |-> JStr(<<"S">>)]),
          JDict([year |-> JStr(<<>>), country |-> JStr(<<>>), quality |-> JInt(0),
                 language |-> JStr(<<"L">>)]),
          JDict([genres |-> JStr(<<"W">>), year |-> JInt(1999)]),
          JDict([genres |-> JList(<<>>), format |-> JStr(<<"M">>)]),
          JDict([genres |-> JList(<<JInt(7)>>)]),
          JDict([genres |-> JList(<<JInt(7)>>), description |-> JStr(<<"d">>)]),
          JDict([description |-> JStr(<<>>), year |-> JInt(1999)]),
          JDict([description |-> JNull, ageRating |-> JStr(<<"R">>)]),
          JDict([description |-> JInt(5), year |-> JInt(1999)]),
          JDict([description |-> JStr(<<>>)]),
          JStr(<<"T">>), JStr(<<>>), JInt(5), JInt(0), JNull,
          JList(<<>>), JList(<<ItAll>>)}

\* the genre titles passed in: a title, the empty default of genre.get
GenreTitles == {JStr(<<"A", "c", "t">>), JStr(<<>>)}

InitExtract ==
    /\ \E it \in ExtractItemPool, m \in MediaTypes, gt \in GenreTitles :
          arg = [item |-> it, media_type |-> m, genre_title |-> gt]
    /\ out = NotYet
    /\ genres = <<>>
    /\ served = <<>>
    /\ inp = [c \in Calls |-> NoInp]
    /\ pc = [c \in Calls |-> "off"]
    /\ loc = [c \in Calls |-> NoLoc]
    /\ results = [c \in Calls |-> <<>>]
    /\ log = [c \in Calls |-> <<>>]
    /\ ret = [c \in Calls |-> NoRet]
    /\ cap = 0
    /\ user_data = <<>>
    /\ events = <<>>

\* details = extract_media_details(item, media_type, genre_title)
ApplyExtract ==
    /\ out = NotYet
    /\ out' = IF ExtractRaises(arg.item) THEN Raised
              ELSE extract_media_details(arg.item, arg.media_type, arg.genre_title)
    /\ UNCHANGED <<genres, served, inp, pc, loc, results, log, ret, arg, cap, user_data, events>>

NextExtract == ApplyExtract

SpecExtract == InitExtract /\ [][NextExtract]_vars

\* the item carries a description: the key is there with a non-empty value
CarriesDescription(x) ==
    /\ x.t = "dict"
    /\ "description" \in DOMAIN x.v
    /\ Truthy(x.v["description"])

\* C14: for an item that carries a (non-empty) description, the record
\* extract_media_details returns has that description verbatim, with no
\* synthesized line added, whatever other metadata the item carries.
C14_DescriptionVerbatim ==
    (out # NotYet /\ CarriesDescription(arg.item)) =>
       /\ out.t = "dict"
       /\ out.v["description"] = arg.item.v["description"]

\* the function was applied to an item with a description and with year,
\* country, genres and plot, and a genre title was passed
C14_Witness ==
    /\ out # NotYet
    /\ CarriesDescription(arg.item)
    /\ {"year", "country", "genres", "plot"} \subseteq DOMAIN arg.item.v
    /\ Truthy(arg.genre_title)
    /\ out.v["description"] = JStr(<<"d", "\n", "e">>)

\* The fields of the synthesized description in their fixed order: the keys
\* a field is read from (the first non-empty one counts), what its line
\* starts with and what it ends with.  The genre field, at position 4, is
\* the item's genre list or else the genre title passed in.
FieldOrder ==
    <<[keys |-> <<"originalName">>,                 pre |-> <<"OriginalName: ">>, post |-> <<>>],
      [keys |-> <<"imdb", "rating">>,               pre |-> <<"Rating: ">>,       post |-> <<"/ 10">>],
      [keys |-> <<"persianName", "persian_title">>, pre |-> <<"PersianName: ">>,  post |-> <<>>],
      [keys |-> <<"genres">>,                       pre |-> <<"Genre: ">>,        post |-> <<>>],
      [keys |-> <<"year">>,                         pre |-> <<"Year: ">>,         post |-> <<>>],
      [keys |-> <<"country">>,                      pre |-> <<"Country: ">>,      post |-> <<>>],
      [keys |-> <<"language">>,                     pre |-> <<"Language: ">>,     post |-> <<>>],
      [keys |-> <<"ageRating">>,                    pre |-> <<"AgeRating: ">>,    post |-> <<>>],
      [keys |-> <<"format">>,                       pre |-> <<"Format: ">>,       post |-> <<>>],
      [keys |-> <<"quality">>,                      pre |-> <<"Quality: ">>,      post |-> <<>>],
      [keys |-> <<"size">>,                         pre |-> <<"Size: ">>,         post |-> <<>>],
      [keys |-> <<"plot", "summary">>,              pre |-> <<"\n", "Plot:", "\n">>, post |-> <<>>]>>

\* the positions of the keys of field f at which item x has a non-empty value
NonEmptyAt(x, f) ==
    {i \in DOMAIN FieldOrder[f].keys :
        /\ FieldOrder[f].keys[i] \in DOMAIN x.v
        /\ Truthy(x.v[FieldOrder[f].keys[i]])}

\* item x has a genre list: a non-empty sequence under 'genres'
HasGenreList(x) ==
    "genres" \in DOMAIN x.v /\ x.v["genres"].t = "list" /\ Len(x.v["genres"].v) > 0

\* field f is present and non-empty for item x and genre title gt
FieldPresent(x, gt, f) ==
    IF f = 4 THEN HasGenreList(x) \/ Truthy(gt)
    ELSE NonEmptyAt(x, f) # {}

\* the text of the value of a present field
FieldText(x, gt, f) ==
    IF f = 4
    THEN IF HasGenreList(x) THEN Join(<<",", " ">>, Texts(x.v["genres"].v))
         ELSE Fmt(gt)
    ELSE LET i == CHOOSE i \in NonEmptyAt(x, f) : \A j \in NonEmptyAt(x, f) : i <= j
         IN  Fmt(x.v[FieldOrder[f].keys[i]])

\* the lines of the fields from position f on, for the present ones only
RECURSIVE LinesFrom(_, _, _)
LinesFrom(x, gt, f) ==
    IF f > Len(FieldOrder) THEN <<>>
    ELSE (IF FieldPresent(x, gt, f)
          THEN <<FieldOrder[f].pre \o FieldText(x, gt, f) \o FieldOrder[f].post>>
          ELSE <<>>)
         \o LinesFrom(x, gt, f + 1)

\* the genre list of item x, when it has one, is a list of strings
GenreListOfStrings(x) ==
    HasGenreList(x) => \A i \in DOMAIN x.v["genres"].v : x.v["genres"].v[i].t = "str"

\* C15: for an item without description (whose genre list, if any, is a
\* list of strings) the description of the record is the lines of the
\* present, non-empty fields, one per field, in the fixed order original
\* name, rating, localized name, genre (the item's list, else the genre
\* title passed in), year, country, language, age rating, format, quality,
\* size, plot/summary, separated by line breaks; a field that is absent or
\* empty leaves no line, no gap and no placeholder, and with no field
\* present the description is empty.
C15_DescriptionSynthesis ==
    (/\ out # NotYet
     /\ arg.item.t = "dict"
     /\ ~CarriesDescription(arg.item)
     /\ GenreListOfStrings(arg.item)) =>
       LET lines == LinesFrom(arg.item, arg.genre_title, 1)
       IN  /\ out.t = "dict"
           /\ IF lines = <<>> THEN ~Truthy(out.v["description"])
              ELSE out.v["description"] = JStr(Join(<<"\n">>, lines))

\* the function was applied, with no genre title, to an item that has a
\* year and a country and nothing else: the description is the year line
\* and the country line, in that order
C15_Witness ==
    /\ out # NotYet
    /\ arg.item = ItemOf({"year", "country"})
    /\ ~Truthy(arg.genre_title)
    /\ out.v["description"] =
          JStr(<<"Year: ", "2020", "\n", "Country: ", "Iran">>)

\* the keys of a record extract_media_details returns
RecordKeys == {"title", "year", "genre", "type", "sources", "poster", "description"}

Absent == [t |-> "absent", v |-> 0]

\* the structured source with the given quality, type and url; a key whose
\* value is Absent is left out
SrcOf(q, ty, u) ==
    LET f == [quality |-> q, type |-> ty, url |-> u]
    IN  JDict([k \in {k \in DOMAIN f : f[k] # Absent} |-> f[k]])

\* the quality values: the five keys of the table, values that are not
\* keys, none
SourceQualities ==
    {JStr(k) : k \in DOMAIN quality_mapping}
    \cup {JStr(<<"H", "D">>), JStr(<<"480p">>), JStr(<<"Trailer">>),
          JStr(<<"480", " ", "Zirnevis">>), JStr(Unknown), JStr(<<>>), Absent}

\* the type values: the keys of the table in several letter cases, values
\* that are not keys, none
SourceTypes ==
    {JStr(<<"m", "p", "4">>), JStr(<<"M", "P", "4">>), JStr(<<"M", "p", "4">>),
     JStr(<<"m", "k", "v">>), JStr(<<"M", "K", "V">>), JStr(<<"m", "K", "v">>),
     JStr(<<"a", "v", "i">>), JStr(<<"A", "V", "I">>), JStr(<<"m", "p", "4", "x">>),
     JStr(<<"s", "t", "r", "e", "a", "m">>), JStr(Unknown), JStr(<<>>), Absent}

SourceUrls == {JStr(<<"u">>), Absent}

\* the sources: bare strings, structured sources, structured sources with
\* values that are not strings, values that are neither
SourcePool ==
    {JStr(<<"u">>), JStr(<<>>), JStr(<<"m", "p", "4">>)}
    \cup {SrcOf(q, ty, u) : q \in SourceQualities, ty \in SourceTypes, u \in SourceUrls}
    \cup {JDict([type |-> JStr(<<"M", "K", "V">>), size |-> JStr(<<"S">>)]),
          SrcOf(Absent, JNull, JStr(<<"u">>)),
          SrcOf(JStr(<<"H", "D">>), JInt(4), Absent),
          SrcOf(JList(<<>>), JStr(<<"m", "p", "4">>), JStr(<<"u">>)),
          SrcOf(JNull, JStr(<<"m", "p", "4">>), JInt(7)),
          JInt(5), JNull, JList(<<JStr(<<"u">>)>>)}

InitSource ==
    /\ arg \in SourcePool
    /\ out = <<>>
    /\ genres = <<>>
    /\ served = <<>>
    /\ inp = [c \in Calls |-> NoInp]
    /\ pc = [c \in Calls |-> "off"]
    /\ loc = [c \in Calls |-> NoLoc]
    /\ results = [c \in Calls |-> <<>>]
    /\ log = [c \in Calls |-> <<>>]
    /\ ret = [c \in Calls |-> NoRet]
    /\ cap = 0
    /\ user_data = <<>>
    /\ events = <<>>

\* what a call parse_source(source) gives: the value returned, or Raised
CallParseSource(source) ==
    IF ParseSourceRaises(source) THEN Raised ELSE parse_source(source)

\* parsed = parse_source(source)
ApplyParseSource ==
    /\ out = <<>>
    /\ out' = <<CallParseSource(arg)>>
    /\ UNCHANGED <<genres, served, inp, pc, loc, results, log, ret, arg, cap, user_data, events>>

\* parse_source(parsed): the function applied to what it returned
ApplyParseSourceAgain ==
    /\ Len(out) = 1
    /\ out[1] # Raised
    /\ out' = Append(out, CallParseSource(out[1]))
    /\ UNCHANGED <<genres, served, inp, pc, loc, results, log, ret, arg, cap, user_data, events>>

NextSource == ApplyParseSource \/ ApplyParseSourceAgain

SpecSource == InitSource /\ [][NextSource]_vars

\* s is a raw source: a bare string, or a mapping in which quality, type
\* and url, where present, are strings
IsRawSource(s) ==
    \/ s.t = "str"
    \/ /\ s.t = "dict"
       /\ \A k \in {"quality", "type", "url"} \cap DOMAIN s.v : s.v[k].t = "str"

\* s is a structured raw source
IsStructured(s) == IsRawSource(s) /\ s.t = "dict"

\* x is a normalized record: type, quality and url, all strings
IsNormalized(x) ==
    /\ x.t = "dict"
    /\ DOMAIN x.v = {"type", "quality", "url"}
    /\ \A k \in DOMAIN x.v : x.v[k].t = "str"

\* C17: parse_source has no error path: applied to a raw source, a bare
\* string or a mapping with any of quality, type, url missing or with a
\* value that is in no table, it returns a record of type, quality and url
\* and does not raise; a missing quality or type comes out as 'unknown', a
\* missing url as the empty string.
C17_NoErrorPath ==
    (out # <<>> /\ IsRawSource(arg)) =>
       /\ out[1] # Raised
       /\ IsNormalized(out[1])
       /\ arg.t = "dict" =>
             /\ "quality" \notin DOMAIN arg.v => out[1].v["quality"] = JStr(Unknown)
             /\ "type" \notin DOMAIN arg.v => out[1].v["type"] = JStr(Unknown)
             /\ "url" \notin DOMAIN arg.v => out[1].v["url"] = JStr(<<>>)
             /\ "url" \in DOMAIN arg.v => out[1].v["url"] = arg.v["url"]

\* the function was applied to a mapping without any of the three keys
C17_Witness ==
    /\ out # <<>>
    /\ arg = JDict(EmptyMap)
    /\ out[1] = JDict([type |-> JStr(Unknown), quality |-> JStr(Unknown),
                       url |-> JStr(<<>>)])

\* C18: normalization is idempotent: for a raw source s,
\* parse_source(parse_source(s)) = parse_source(s); and parse_source leaves
\* its argument as it was.
C18_Idempotent ==
    /\ [](IsRawSource(arg) /\ Len(out) = 2 => out[2] = out[1])
    /\ [][arg' = arg]_vars

\* the function was applied twice, starting from a structured source whose
\* type and quality the tables change
C18_Witness ==
    /\ Len(out) = 2
    /\ IsStructured(arg)
    /\ "type" \in DOMAIN arg.v
    /\ "quality" \in DOMAIN arg.v
    /\ out[1].v["type"] # arg.v["type"]
    /\ out[1].v["quality"] # arg.v["quality"]
    /\ out[2] = out[1]

\* the raw type of a structured source: 'unknown' when it has none
RawType(s) == IF "type" \in DOMAIN s.v THEN s.v["type"] ELSE JStr(Unknown)

\* the type table, read without regard to letter case
TypeTable(ty) ==
    CASE Lower(ty.v) = <<"m", "p", "4">> -> JStr(<<"s", "t", "r", "e", "a", "m">>)
      [] Lower(ty.v) = <<"m", "k", "v">> -> JStr(<<"d", "o", "w", "n", "l", "o", "a", "d">>)
      [] OTHER                           -> ty

\* C19: for a structured source the normalized type is 'stream' when the
\* raw type is 'mp4' and 'download' when it is 'mkv', in any letter case,
\* and otherwise the raw type unchanged, in the case it was given; it is a
\* function of the raw type alone.
C19_TypeTable ==
    (out # <<>> /\ IsStructured(arg)) =>
       /\ out[1] # Raised
       /\ out[1].v["type"] = TypeTable(RawType(arg))

\* the function was applied to a structured source of type 'MP4' that has
\* a quality and a url
C19_Witness ==
    /\ out # <<>>
    /\ IsStructured(arg)
    /\ DOMAIN arg.v = {"quality", "type", "url"}
    /\ arg.v["type"] = JStr(<<"M", "P", "4">>)
    /\ out[1].v["type"] = JStr(<<"s", "t", "r", "e", "a", "m">>)

\* the raw quality of a structured source: 'unknown' when it has none
RawQuality(s) == IF "quality" \in DOMAIN s.v THEN s.v["quality"] ELSE JStr(Unknown)

\* the quality table: its five keys and their values
QualityTable(q) ==
    CASE q.v = <<"tizer">>                                    -> JStr(<<"Trailer">>)
      [] q.v = <<"480", " ", "zirnevis">>                     -> JStr(<<"480p">>)
      [] q.v = <<"720", " ", "zirnevis">>                     -> JStr(<<"720p">>)
      [] q.v = <<"1080", " ", "zirnevis">>                    -> JStr(<<"1080p">>)
      [] q.v = <<"1080", " ", "FULLHD", " ", "zirnevis">>     -> JStr(<<"1080p">>)
      [] OTHER                                                -> q

\* C20: for a structured source each of the five quality keys comes out as
\* its normalized value (Trailer, 480p, 720p, 1080p, 1080p) and any other
\* quality comes out unchanged; the normalized quality is a function of the
\* raw quality alone.
C20_QualityTable ==
    (out # <<>> /\ IsStructured(arg)) =>
       /\ out[1] # Raised
       /\ out[1].v["quality"] = QualityTable(RawQuality(arg))

\* the function was applied to a structured source whose quality is the
\* fifth key of the table and that has a type and a url
C20_Witness ==
    /\ out # <<>>
    /\ IsStructured(arg)
    /\ DOMAIN arg.v = {"quality", "type", "url"}
    /\ arg.v["quality"] = JStr(<<"1080", " ", "FULLHD", " ", "zirnevis">>)
    /\ out[1].v["quality"] = JStr(<<"1080p">>)

\* C21: for a bare string s parse_source returns exactly the record with
\* type 'unknown', quality 'unknown' and url s, also when s is itself a key
\* of a table, such as 'mp4'.
C21_BareString ==
    (out # <<>> /\ arg.t = "str") =>
       out[1] = JDict([type |-> JStr(Unknown), quality |-> JStr(Unknown), url |-> arg])

\* the function was applied to the bare string 'mp4'
C21_Witness ==
    /\ out # <<>>
    /\ arg = JStr(<<"m", "p", "4">>)
    /\ out[1].v["type"] = JStr(Unknown)
    /\ out[1].v["url"] = JStr(<<"m", "p", "4">>)

(***************************************************************************)
(* Presentation of one result.  SpecRender builds the record with          *)
(* extract_media_details, then lets the bot send its card (perform_search) *)
(* and the command line write its report (generate_html).  arg is the      *)
(* record, out holds what was sent and what was written.                   *)
(***************************************************************************)
\* the most entries of a result's sources
MaxSources == 6

\* sources[:n]
Prefix(seq, n) == IF Len(seq) <= n THEN seq ELSE SubSeq(seq, 1, n)

\* the sources among which parse_source raises
AnyRaises(sources) == \E i \in 1..Len(sources) : ParseSourceRaises(sources[i])

\* for source in sources: parsed_source = parse_source(source);
\* if parsed_source: one link, numbered by the position in sources
RECURSIVE LinksFrom(_, _)
LinksFrom(sources, i) ==
    IF i > Len(sources) THEN <<>>
    ELSE LET parsed_source == parse_source(sources[i])
         IN  (IF Truthy(parsed_source)
              THEN <<[n       |-> i,
                      quality |-> DictGet(parsed_source, "quality", JStr(<<>>)),
                      type    |-> DictGet(parsed_source, "type", JStr(<<>>)),
                      url     |-> DictGet(parsed_source, "url", JStr(<<>>))]>>
              ELSE <<>>) \o LinksFrom(sources, i + 1)

\* faulty variant: the card lists every source
CardSourcesAll(sources) == sources

\* enumerate(sources[:5]): the sources the card lists
CardSources(sources) == Prefix(sources, 5)

\* the card of one result in perform_search; photo_ok tells whether
\* reply_photo succeeds.  An exception of parse_source leaves the loop for
\* the handler's except clause, which replies with an error text.  Of the
\* caption the links and the count of sources left out are kept; its title,
\* year, genre, type and description lines take no part in either.
Card(result, photo_ok) ==
    LET poster  == DictGet(result, "cover", JStr(<<>>))
        sources == DictGet(result, "sources", JList(<<>>))
        listed  == IF Truthy(sources) THEN CardSources(sources.v) ELSE <<>>
    IN  IF AnyRaises(listed) THEN [kind |-> "error"]
        ELSE [kind      |-> IF Truthy(poster) /\ photo_ok THEN "photo" ELSE "text",
              photo     |-> IF Truthy(poster) /\ photo_ok THEN poster ELSE JStr(<<>>),
              tried     |-> Truthy(poster),
              links     |-> LinksFrom(listed, 1),
              more      |-> IF Truthy(sources) /\ Len(sources.v) > 5
                            THEN Len(sources.v) - 5 ELSE 0]

\* the block of one result in generate_html; an exception of parse_source
\* leaves generate_html
HtmlBlock(result) ==
    LET sources == DictGet(result, "sources", JNull)
        all     == IF Truthy(sources) THEN sources.v ELSE <<>>
    IN  IF AnyRaises(all) THEN [kind |-> "raised"]
        ELSE [kind   |-> "html",
              poster |-> IF Truthy(DictGet(result, "poster", JNull))
                         THEN result.v["poster"] ELSE JStr(<<>>),
              links  |-> LinksFrom(all, 1)]

\* the entries of sources: a bare string, a structured source, a value
\* parse_source gives None for
SourceKinds == {JStr(<<"u">>), SrcFullHD, JInt(5)}

\* the sources of the items: every list of up to MaxSources entries, lists
\* with an entry parse_source raises on, inside and outside the first five
SourceLists ==
    UNION {[1..n -> SourceKinds] : n \in 0..MaxSources}
    \cup {<<JStr(<<"u">>), SrcOf(Absent, JNull, JStr(<<"u">>))>>,
          [i \in 1..6 |-> IF i = 6 THEN SrcOf(Absent, JNull, JStr(<<"u">>))
                          ELSE JStr(<<"u">>)]}

\* the poster fields of the items: a url, empty, none, and a url next to a
\* cover key
PosterFields ==
    {[poster |-> JStr(<<"p">>)], [poster |-> JStr(<<>>)], <<>>,
     [poster |-> JStr(<<"p">>), cover |-> JStr(<<"c">>)]}

RenderItems ==
    {JDict([title |-> JStr(<<"T">>), sources |-> JList(ss)] @@ pf) :
        ss \in SourceLists, pf \in PosterFields}

InitRender ==
    /\ \E it \in RenderItems :
          arg = extract_media_details(it, "Movie", JStr(<<"A", "c", "t">>))
    /\ out = [card |-> NotYet, html |-> NotYet]
    /\ genres = <<>>
    /\ served = <<>>
    /\ inp = [c \in Calls |-> NoInp]
    /\ pc = [c \in Calls |-> "off"]
    /\ loc = [c \in Calls |-> NoLoc]
    /\ results = [c \in Calls |-> <<>>]
    /\ log = [c \in Calls |-> <<>>]
    /\ ret = [c \in Calls |-> NoRet]
    /\ cap = 0
    /\ user_data = <<>>
    /\ events = <<>>

\* perform_search sends the card of the result
SendCard ==
    /\ out.card = NotYet
    /\ \E photo_ok \in BOOLEAN : out' = [out EXCEPT !.card = Card(arg, photo_ok)]
    /\ UNCHANGED <<genres, served, inp, pc, loc, results, log, ret, arg, cap, user_data, events>>

\* generate_html writes the block of the result
WriteHtml ==
    /\ out.html = NotYet
    /\ out' = [out EXCEPT !.html = HtmlBlock(arg)]
    /\ UNCHANGED <<genres, served, inp, pc, loc, results, log, ret, arg, cap, user_data, events>>

NextRender == SendCard \/ WriteHtml

SpecRender == InitRender /\ [][NextRender]_vars

\* the normalized records of the entries of sources that parse_source
\* gives a record for, in order
RECURSIVE Normalized(_)
Normalized(sources) ==
    IF sources = <<>> THEN <<>>
    ELSE (IF Head(sources).t \in {"str", "dict"}
          THEN <<CallParseSource(Head(sources))>> ELSE <<>>)
         \o Normalized(Tail(sources))

\* the normalized record a link shows
Shown(link) == JDict([type |-> link.type, quality |-> link.quality, url |-> link.url])

CardSent == out.card # NotYet /\ out.card.kind \in {"photo", "text"}

HtmlWritten == out.html # NotYet /\ out.html.kind = "html"

\* C22: the card and the report both show at most 5 source links of a
\* result, however many entries its sources have.
C22_AtMostFiveLinks ==
    /\ CardSent => Len(out.card.links) <= 5
    /\ HtmlWritten => Len(out.html.links) <= 5

\* C22, amended: the card shows the normalized records of the first 5
\* entries of sources and counts the entries beyond them; the report shows
\* the normalized record of every entry.
C22_CardFiveReportAll ==
    /\ CardSent =>
          /\ Len(out.card.links) <= 5
          /\ [i \in 1..Len(out.card.links) |-> Shown(out.card.links[i])]
                = Normalized(Prefix(arg.v["sources"].v, 5))
          /\ out.card.more = IF Len(arg.v["sources"].v) > 5
                             THEN Len(arg.v["sources"].v) - 5 ELSE 0
    /\ HtmlWritten =>
          [i \in 1..Len(out.html.links) |-> Shown(out.html.links[i])]
             = Normalized(arg.v["sources"].v)

\* a result with six sources: five links and one more on the card, six
\* links in the report
C22_Witness ==
    /\ Len(arg.v["sources"].v) = 6
    /\ CardSent /\ Len(out.card.links) = 5 /\ out.card.more = 1
    /\ HtmlWritten /\ Len(out.html.links) = 6

\* C27: a result whose record has a poster goes out as a photo with that
\* poster; a text-only card goes out only for an empty poster or after the
\* photo failed.
C27_PosterAsPhoto ==
    CardSent =>
       /\ out.card.kind = "photo" => out.card.photo = arg.v["poster"]
       /\ out.card.kind = "text" => (~Truthy(arg.v["poster"]) \/ out.card.tried)

(***************************************************************************)
(* The chat session of one user (src/telegram_bot.py).  The dispatcher     *)
(* runs one handler at a time, so each handler is one action.  SpecBot     *)
(* keeps context.user_data and, in events, every update handled together   *)
(* with the call of perform_search it made, if any.  A search is recorded  *)
(* by its arguments and the engine functions it calls; the engine itself   *)
(* is what Spec describes.  Calls of the chat transport (answer,           *)
(* edit_message_text, reply_text) are taken to succeed.                    *)
(***************************************************************************)
\* the most updates of one session
MaxEvents == 4

\* context.user_data.get(key)
UdGet(ud, key) == IF key \in DOMAIN ud THEN ud[key] ELSE JNull

\* context.user_data[key] = value
UdSet(ud, key, value) == (key :> value) @@ ud

\* del context.user_data[key] for each of the keys that is present
UdDel(ud, keys) == [k \in DOMAIN ud \ keys |-> ud[k]]

\* the engine functions perform_search calls for a content type
Engines(content_type) ==
    (IF ~Truthy(content_type) \/ content_type.v \in {<<"movie">>, <<"both">>}
     THEN <<"Movie">> ELSE <<>>)
    \o (IF ~Truthy(content_type) \/ content_type.v \in {<<"series">>, <<"both">>}
        THEN <<"Series">> ELSE <<>>)

\* perform_search(update, context, query, content_type, genre_id, country_id);
\* received is the position in events of the update that brought the query
perform_search(query, received, content_type, genre_id, country_id) ==
    [query        |-> query,
     received     |-> received,
     content_type |-> content_type,
     genre_id     |-> genre_id,
     country_id   |-> country_id,
     engines      |-> Engines(content_type)]

\* one handled update
Handled(kind, val, searches) == [kind |-> kind, val |-> val, searches |-> searches]

\* callback genre_<id>
GenreButton(id) ==
    /\ Len(events) < MaxEvents
    /\ user_data' = UdSet(user_data, "genre_id", JInt(id))
    /\ events' = Append(events, Handled("genre", JInt(id), <<>>))
    /\ UNCHANGED <<genres, served, inp, pc, loc, results, log, ret, arg, out, cap>>

\* callback country_<id>
CountryButton(id) ==
    /\ Len(events) < MaxEvents
    /\ user_data' = UdSet(user_data, "country_id", JInt(id))
    /\ events' = Append(events, Handled("country", JInt(id), <<>>))
    /\ UNCHANGED <<genres, served, inp, pc, loc, results, log, ret, arg, out, cap>>

\* faulty variant: the pending query is read and left in place
TakePendingKeep(ud) == ud

\* context.user_data.pop('pending_search'): the session after the pop
TakePending(ud) == UdDel(ud, {"pending_search"})

\* callback type_<content_type>
TypeButton(content_type) ==
    LET ud1 == UdSet(user_data, "content_type", JStr(<<content_type>>))
    IN  /\ Len(events) < MaxEvents
        /\ IF "pending_search" \in DOMAIN ud1
           THEN LET search_query == ud1["pending_search"]
                    ud2 == TakePending(ud1)
                IN  /\ user_data' = ud2
                    /\ events' = Append(events,
                          Handled("type", JStr(<<content_type>>),
                             <<perform_search(search_query.query, search_query.received,
                                              JStr(<<content_type>>),
                                              UdGet(ud2, "genre_id"),
                                              UdGet(ud2, "country_id"))>>))
           ELSE /\ user_data' = ud1
                /\ events' = Append(events, Handled("type", JStr(<<content_type>>), <<>>))
        /\ UNCHANGED <<genres, served, inp, pc, loc, results, log, ret, arg, out, cap>>

\* the handler search: a text message that is not a command
TextMessage(search_query) ==
    LET genre_id     == UdGet(user_data, "genre_id")
        country_id   == UdGet(user_data, "country_id")
        content_type == UdGet(user_data, "content_type")
        ud1          == UdDel(user_data, {"genre_id", "country_id", "content_type"})
        received     == Len(events) + 1
    IN  /\ Len(events) < MaxEvents
        /\ IF ~Truthy(content_type)
           THEN /\ user_data' = UdSet(ud1, "pending_search",
                                      [query |-> search_query, received |-> received])
                /\ events' = Append(events, Handled("text", search_query, <<>>))
           ELSE /\ user_data' = ud1
                /\ events' = Append(events,
                      Handled("text", search_query,
                         <<perform_search(search_query, received, content_type,
                                          genre_id, country_id)>>))
        /\ UNCHANGED <<genres, served, inp, pc, loc, results, log, ret, arg, out, cap>>

\* int(text) on the words the commands carry; ValueError is Raised
IntOf(word) ==
    CASE word = "1" -> JInt(1)
      [] word = "2" -> JInt(2)
      [] OTHER      -> Raised

\* the loop of advanced_search over args from position i: the query words,
\* content type, genre id and country id read so far, or Raised when an
\* id is no number
RECURSIVE ParseArgs(_, _, _)
ParseArgs(args, i, acc) ==
    IF i > Len(args) THEN acc
    ELSE IF args[i] = "--type" /\ i + 1 <= Len(args)
         THEN ParseArgs(args, i + 2, [acc EXCEPT !.content_type = JStr(<<args[i + 1]>>)])
    ELSE IF args[i] = "--genre" /\ i + 1 <= Len(args)
         THEN IF IntOf(args[i + 1]) = Raised THEN Raised
              ELSE ParseArgs(args, i + 2, [acc EXCEPT !.genre_id = IntOf(args[i + 1])])
    ELSE IF args[i] = "--country" /\ i + 1 <= Len(args)
         THEN IF IntOf(args[i + 1]) = Raised THEN Raised
              ELSE ParseArgs(args, i + 2, [acc EXCEPT !.country_id = IntOf(args[i + 1])])
    ELSE ParseArgs(args, i + 1, [acc EXCEPT !.query = Append(@, args[i])])

\* ' '.join(query) on the words of a command
RECURSIVE JoinWords(_)
JoinWords(words) ==
    IF words = <<>> THEN <<>>
    ELSE IF Len(words) = 1 THEN <<words[1]>>
    ELSE <<words[1], " ">> \o JoinWords(Tail(words))

\* the command /search with its arguments
advanced_search(args) ==
    LET parsed == ParseArgs(args, 1, [query |-> <<>>, content_type |-> JNull,
                                      genre_id |-> JNull, country_id |-> JNull])
    IN  /\ Len(events) < MaxEvents
        /\ events' = Append(events,
              Handled("command", args,
                 IF args = <<>> \/ parsed = Raised THEN <<>>
                 ELSE <<perform_search(JStr(JoinWords(parsed.query)), Len(events) + 1,
                                       parsed.content_type, parsed.genre_id,
                                       parsed.country_id)>>))
        /\ UNCHANGED <<genres, served, inp, pc, loc, results, log, ret, arg, out, cap,
                       user_data>>

\* the ids on the genre and country keyboards
ButtonGenreIds == {1, 2}

ButtonCountryIds == {1}

\* the callback data of the type keyboard
ButtonTypes == {"movie", "series", "both"}

\* the texts a user sends
UserTexts == {JStr(<<"a">>), JStr(<<"b">>)}

\* the argument lists of /search: none, a query, options without a
\* query, an id that is no number
CommandArgs ==
    {<<>>, <<"a", "c">>, <<"--type", "series", "--genre", "2">>, <<"a", "--country", "x">>}

InitBot ==
    /\ user_data = <<>>
    /\ events = <<>>
    /\ arg = JNull
    /\ out = NotYet
    /\ genres = <<>>
    /\ served = <<>>
    /\ inp = [c \in Calls |-> NoInp]
    /\ pc = [c \in Calls |-> "off"]
    /\ loc = [c \in Calls |-> NoLoc]
    /\ results = [c \in Calls |-> <<>>]
    /\ log = [c \in Calls |-> <<>>]
    /\ ret = [c \in Calls |-> NoRet]
    /\ cap = 0

NextBot ==
    \/ \E id \in ButtonGenreIds : GenreButton(id)
    \/ \E id \in ButtonCountryIds : CountryButton(id)
    \/ \E t \in ButtonTypes : TypeButton(t)
    \/ \E q \in UserTexts : TextMessage(q)
    \/ \E args \in CommandArgs : advanced_search(args)

SpecBot == InitBot /\ [][NextBot]_vars

\* the updates that are text queries
TextEvents == {j \in 1..Len(events) : events[j].kind = "text"}

\* the updates at which the query received at j was searched
SearchedAt(j) ==
    {k \in 1..Len(events) :
        \E n \in 1..Len(events[k].searches) : events[k].searches[n].received = j}

\* update i is a press of a button of the kind, and the query received at
\* j is the user's next text query after it, with no later press of the
\* kind in between
ChosenFor(kind, i, j) ==
    /\ i < j
    /\ events[i].kind = kind
    /\ \A m \in (i + 1)..(j - 1) : events[m].kind \notin {kind, "text"}

\* the argument of a search that a button of the kind chooses
FilterOf(kind, search) == IF kind = "genre" THEN search.genre_id ELSE search.country_id

\* C24: the genre (country) chosen with a button is the genre_id
\* (country_id) of the search performed for the user's next text query, be
\* the content type chosen before the query or afterwards through the
\* prompt.
C24_FilterReachesNextQuery ==
    \A j \in TextEvents : \A k \in SearchedAt(j) :
       \A kind \in {"genre", "country"} : \A i \in 1..(j - 1) :
          ChosenFor(kind, i, j) => FilterOf(kind, events[k].searches[1]) = events[i].val

\* the same for the first order only: the search is performed by the
\* handler of the text message itself
C24_DirectOrderOnly ==
    \A j \in TextEvents : \A k \in SearchedAt(j) \cap {j} :
       \A kind \in {"genre", "country"} : \A i \in 1..(j - 1) :
          ChosenFor(kind, i, j) => FilterOf(kind, events[k].searches[1]) = events[i].val

\* C25: right after a search has been performed for a text query none of
\* genre_id, country_id, content_type is left in the session.
C25_FiltersOneShot ==
    (/\ events # <<>>
     /\ events[Len(events)].searches # <<>>
     /\ events[Len(events)].searches[1].received \in TextEvents) =>
       DOMAIN user_data \cap {"genre_id", "country_id", "content_type"} = {}

\* the update handled by a step
Latest == events'[Len(events')]

\* C26: a text query without a saved content type is not searched and
\* becomes the pending search; a press of a type button with a pending
\* search removes it and performs one search, with that query; a press
\* without a pending search performs none; no received query is searched
\* more than once.
C26_PendingProtocol ==
    /\ [](\A j \in 1..Len(events) :
             /\ Len(events[j].searches) <= 1
             /\ Cardinality(SearchedAt(j)) <= 1)
    /\ [][Len(events') = Len(events) + 1 =>
            /\ (Latest.kind = "text" /\ ~Truthy(UdGet(user_data, "content_type"))) =>
                  /\ Latest.searches = <<>>
                  /\ "pending_search" \in DOMAIN user_data'
                  /\ user_data'["pending_search"] =
                        [query |-> Latest.val, received |-> Len(events')]
            /\ (Latest.kind = "type" /\ "pending_search" \in DOMAIN user_data) =>
                  /\ "pending_search" \notin DOMAIN user_data'
                  /\ Len(Latest.searches) = 1
                  /\ Latest.searches[1].query = user_data["pending_search"].query
                  /\ Latest.searches[1].received = user_data["pending_search"].received
                  /\ events[Latest.searches[1].received].val = Latest.searches[1].query
            /\ (Latest.kind = "type" /\ "pending_search" \notin DOMAIN user_data) =>
                  Latest.searches = <<>>]_vars

\* two queries came in without a content type, a type button searched the
\* second, a further press searched nothing
C26_Witness ==
    \E j \in TextEvents : \E k, m \in 1..Len(events) :
       /\ j - 1 \in TextEvents /\ events[j - 1].val # events[j].val
       /\ j < k /\ k < m
       /\ events[j].searches = <<>> /\ SearchedAt(j - 1) = {}
       /\ events[k].kind = "type" /\ SearchedAt(j) = {k}
       /\ events[m].kind = "type" /\ events[m].searches = <<>>
       /\ "pending_search" \notin DOMAIN user_data

(***************************************************************************)
(* Termination of a search call.  SpecLive is Spec with the fairness a     *)
(* running call has: the interpreter keeps executing it, so a step that    *)
(* stays possible is taken.  The catalog serves at most cap non-empty      *)
(* pages to the call, after which every page is empty, an error or a       *)
(* failure: each genre's page sequence reaches such a page.  LogBound is   *)
(* the longest log a call can then write; a call that would write more     *)
(* stops short of returning.                                               *)
(***************************************************************************)
LogBound == 2 * MaxFull + MaxGenres

NextLive ==
    \/ LoadFails(1)
    \/ Start(1)
    \/ (Len(log[1]) < LogBound /\ Fetch(1))
    \/ (Len(log[1]) < LogBound /\ Sleep(1))

SpecLive == Init /\ [][NextLive]_vars /\ WF_vars(NextLive)

\* the outcomes that end the paging loop of a genre
GenreEndings == {"empty", "http", "badjson"}

\* the outcomes that end the whole call
CallEndings == {"exact", "neterr", "raise"}

\* the one ending the response of a request stands for, "" for a page
\* after which paging goes on
EndingOf(c, e) ==
    LET resp == RespOf(c, e)
    IN  CASE resp.net = "fail"               -> "abort"
          [] ErrorResponse(resp) /\ resp.status # 200 -> "HttpError"
          [] ErrorResponse(resp) /\ resp.status = 200 -> "ParseError"
          [] EmptyPage(resp)                  -> "EndOfData"
          [] ExactReached(c, e)               -> "exact"
          [] PlainPage(resp, inp[c].query)    -> ""
          [] OTHER                            -> "abort"

\* the ending a logged outcome stands for
EndingLogged(outc) ==
    CASE outc = "empty"   -> "EndOfData"
      [] outc = "http"    -> "HttpError"
      [] outc = "badjson" -> "ParseError"
      [] outc = "exact"   -> "exact"
      [] outc \in {"neterr", "raise"} -> "abort"
      [] OTHER            -> ""

\* the paging loop of the genre at position gi, as far as it has run:
\* pages 0, 1, ... in order, every request but the last a page after which
\* paging goes on, the last one, once the loop is left, one of the five
\* endings; a genre ending lets the call go on, a call ending ends the call
LoopOf(c, gi) ==
    LET R    == GenreReqs(c, gi)
        last == R[Len(R)]
        left == pc[c] = "done" \/ loc[c].gi > gi
    IN  R # <<>> =>
          /\ \A n \in 1..Len(R) :
                /\ R[n].page = n - 1
                /\ EndingLogged(R[n].out) = EndingOf(c, R[n])
                /\ n < Len(R) => R[n].out = "page"
          /\ left <=> last.out \in GenreEndings \cup CallEndings
          /\ last.out \in GenreEndings => loc[c].gi > gi
          /\ last.out \in CallEndings =>
                /\ pc[c] = "done"
                /\ ret[c] = [status |-> "returned",
                             why |-> IF last.out = "exact" THEN "exact" ELSE "exception"]
                /\ Reqs(c)[Len(Reqs(c))] = last

\* C28: the call comes to its end, and returns unless the reference data
\* could not be loaded; the paging loop of every genre ends in exactly one
\* of end of data, HTTP error, parse error, exact-match return, abort of
\* the whole search.
C28_Terminates ==
    /\ <>(pc[1] = "done")
    /\ [](/\ \A gi \in 1..MaxGenres : LoopOf(1, gi)
          /\ (pc[1] = "done" /\ ret[1].status # "returned") => ret[1].why = "load"
          /\ pc[1] = "request" => Len(log[1]) < LogBound)

\* a call that has returned after two genres: the first ended on an empty
\* page after a page of items, the second on an HTTP error
C28_Witness ==
    /\ RanToEnd(1)
    /\ \E g1, g2 \in 1..MaxGenres :
          /\ g1 < g2
          /\ Len(GenreReqs(1, g1)) >= 2
          /\ GenreReqs(1, g1)[Len(GenreReqs(1, g1))].out = "empty"
          /\ GenreReqs(1, g2) # <<>>
          /\ GenreReqs(1, g2)[Len(GenreReqs(1, g2))].out = "http"

(***************************************************************************)
(* Two search calls at once.  In SpecConc both calls are started against   *)
(* the same reference list and the same catalog, and their steps           *)
(* interleave in every order; a step is what a call does between two       *)
(* points where another thread can run: a request with the handling of its *)
(* response, a sleep.                                                      *)
(***************************************************************************)
\* the most genres of the reference list of the two calls
MaxConcGenres == 1

\* the arguments of the two calls: different queries over the same pages,
\* the two functions side by side with a filter on one
ConcInputs ==
    LET In(q, g, m) == [query |-> q, genre_id |-> g, country_id |-> JNull, media_type |-> m]
    IN  {<<In(<<"b">>, JNull, "Movie"), In(<<"x", "A">>, JNull, "Movie")>>,
         <<In(<<"A", "b">>, JNull, "Movie"), In(<<"b">>, JInt(1), "Series")>>}

InitConc ==
    /\ genres \in {gs \in GenreLists : Len(gs) <= MaxConcGenres}
    /\ served = <<>>
    /\ \E i \in ConcInputs : inp = [c \in Calls |-> i[c]]
    /\ pc = [c \in Calls |-> "idle"]
    /\ loc = [c \in Calls |-> NoLoc]
    /\ results = [c \in Calls |-> <<>>]
    /\ log = [c \in Calls |-> <<>>]
    /\ ret = [c \in Calls |-> NoRet]
    /\ arg = JNull
    /\ out = JNull
    /\ cap = MaxPairFull
    /\ user_data = <<>>
    /\ events = <<>>

NextConc ==
    \/ LoadFails(1) \/ Start(1) \/ Fetch(1) \/ Sleep(1)
    \/ LoadFails(2) \/ Start(2) \/ Fetch(2) \/ Sleep(2)

SpecConc == InitConc /\ [][NextConc]_vars

\* the candidate genres of call c, from its own arguments
OwnCandidates(c) ==
    SelectSeq(genres, LAMBDA g : inp[c].genre_id = JNull \/ IdOf(g) = inp[c].genre_id)

\* what call c does when it runs alone against the catalog as served, from
\* the genre at position gi of sg and the page on: the requests it makes
\* and the results it returns; ok is FALSE when it needs a page that was
\* never served
RECURSIVE Alone(_, _, _, _, _, _)
Alone(c, sg, gi, page, asked, res) ==
    IF gi > Len(sg) THEN [ok |-> TRUE, asked |-> asked, results |-> res]
    ELSE IF ~Truthy(IdOf(sg[gi])) THEN Alone(c, sg, gi + 1, 0, asked, res)
    ELSE LET gid  == IdOf(sg[gi]).v
             key  == <<inp[c].media_type, gid, page>>
             resp == served[key]
             now  == Append(asked, <<gid, page>>)
             items == PageItems(resp)
             stop  == FirstStop(items, 1, inp[c].query)
             n     == IF stop > Len(items) THEN Len(items)
                      ELSE IF Raising(items[stop]) THEN stop - 1 ELSE stop
             got   == res \o MatchesUpTo(items, n, inp[c].query, inp[c].media_type,
                                         DictGet(sg[gi], "title", JStr(<<>>)))
         IN  IF key \notin DOMAIN served
             THEN [ok |-> FALSE, asked |-> asked, results |-> res]
             ELSE IF resp.net = "fail" THEN [ok |-> TRUE, asked |-> now, results |-> res]
             ELSE IF ErrorResponse(resp) \/ EmptyPage(resp)
             THEN Alone(c, sg, gi + 1, 0, now, res)
             ELSE IF PlainPage(resp, inp[c].query)
             THEN Alone(c, sg, gi, page + 1, now, got)
             ELSE [ok |-> TRUE, asked |-> now,
                   results |-> IF Iterable(process_response(resp.json)) THEN got ELSE res]

RunAlone(c) == Alone(c, OwnCandidates(c), 1, 0, <<>>, <<>>)

\* C23: whatever the interleaving, the accumulator of a call holds the
\* matches of its own query on the pages it fetched itself, and a call
\* that has returned made the requests and returns the results of a run
\* alone against the same catalog.
C23_CallsIndependent ==
    \A c \in Calls :
       /\ results[c] = Accumulated(c, Len(Reqs(c)))
       /\ (pc[c] = "done" /\ ret[c].status = "returned") =>
             LET alone == RunAlone(c)
             IN  /\ alone.ok
                 /\ Asked(c) = alone.asked
                 /\ results[c] = alone.results

\* both calls are between two requests of the same catalog, one has
\* returned nothing it would not return alone, and their accumulators
\* differ
C23_Witness ==
    /\ pc[1] = "sleep" /\ pc[2] = "sleep"
    /\ inp[1].media_type = inp[2].media_type
    /\ Asked(1) = Asked(2)
    /\ results[1] # <<>> /\ results[2] # <<>>
    /\ results[1] # results[2]

=============================================================================
